---------------------------- MODULE Spec2Model ----------------------------
(***************************************************************************)
(* Model of the simple_state layer of the Sabre SDK: the hash addressers   *)
(* (sdk/src/simple_state/addresser.rs) and the KeyValueTransactionContext  *)
(* (sdk/src/simple_state/context.rs) running over a raw byte store that    *)
(* behaves like the TestState of sdk/src/simple_state/mod.rs.              *)
(*                                                                         *)
(* Strings are TLA+ strings; a natural key of the double-key addresser is  *)
(* a pair of strings.  A HashMap is a function; where the code iterates a  *)
(* HashMap of keys or addresses the iteration order is an explicit         *)
(* parameter that the actions choose freely.                               *)
(*                                                                         *)
(* Six specifications share the variables: Spec, the context over a raw   *)
(* store that never fails; SpecRun, the context with its failures and the  *)
(* raw calls it issues; SpecAddresser, the three addressers on their own,  *)
(* with the usize arithmetic of their segment lengths; SpecCli, the        *)
(* helpers of the command line client that talk to the REST API;           *)
(* SpecIntkey, the intkey_multiply handler over the store of its context;  *)
(* SpecCodec, the CBOR codec of the handler on its own.                    *)
(***************************************************************************)
EXTENDS Integers, Sequences, FiniteSets, TLC

(***************************************************************************)
(* Bounds of the model.                                                    *)
(***************************************************************************)
\* largest number of records, over all buckets, the model lets the raw store
\* hold
MaxRecords == 2
\* largest number of records the raw store holds where raw calls can fail
MaxRunRecords == 3
\* largest number of keys handed to one batch call
MaxBatch == 2
\* largest number of addresses that hold a payload the context did not write
MaxForeign == 1
\* largest length of the prefix an addresser is constructed with
MaxPrefix == 72
\* largest number of requests the command line client sends in a behaviour
MaxRequests == 2
\* largest number of names of a map handed to encode_intkey
MaxNames == 2

(***************************************************************************)
(* Generic helpers.                                                        *)
(***************************************************************************)
Range(s) == { s[i] : i \in 1..Len(s) }

\* all sequences that enumerate the finite set S without repetition
Perms(S) ==
    { s \in [1..Cardinality(S) -> S] : \A x \in S : \E i \in DOMAIN s : s[i] = x }

\* all sequences of at most n different elements of S
RECURSIVE SeqsUpTo(_, _)
SeqsUpTo(S, n) ==
    IF n = 0 THEN { <<>> }
    ELSE SeqsUpTo(S, n - 1)
           \cup { s \in [1..n -> S] : \A i, j \in 1..n : i # j => s[i] # s[j] }

None == [some |-> FALSE]
Some(v) == [some |-> TRUE, val |-> v]
Ok(v) == [tag |-> "Ok", val |-> v]
Err(e) == [tag |-> "Err", err |-> e]

(***************************************************************************)
(* addresser.rs                                                            *)
(***************************************************************************)
ADDRESS_LENGTH == 70

\* The SHA-512 digest, in lower-case hexadecimal, of the key components the
\* model uses (the values are the real digests).
Sha512Hex(s) ==
    CASE s = "a" ->
           "1f40fc92da241694750979ee6cf582f2d5d7d28e18335de05abc54d0560e0f53"
           \o "02860c652bf08d560252aa5e74210546f369fbbbce8c12cfc7957b2652fe9a75"
      [] s = "b" ->
           "5267768822ee624d48fce15ec5ca79cbd602cb7f4c2157a516556991f22ef8c7"
           \o "b5ef7b18d1ff41c59370efb0858651d44a936c11b7b144c48fe04df3c6a3e8da"
      [] s = "c" ->
           "acc28db2beb7b42baa1cb0243d401ccb4e3fce44d7b02879a52799aadff54152"
           \o "2d8822598b2fa664f9d5156c00c924805d75c3868bd56c2acb81d37e98e35adc"
      [] s = "a_b" ->
           "52654434517bed68cb2af4b922c396566a6135faae8af15923120fd4dfa5a773"
           \o "ca9abf723f9fff76e49390dfc530f06ca621d6af81b1e17b0e7aeedfa92d0f4d"
      [] s = "b_c" ->
           "b2315682cd6d4cd443344fce9121ce59428aab74b962ed802b206457aa176ad4"
           \o "511e564f70400d644723e7621cae8b419142457e1c6eee0d12554d339dbbac31"
      [] s = "intkey" ->
           "1cf126a27a1fd9ba83e819ebff8c9f98ec8976f39cce35e984242a2ee40368fd"
           \o "8704c8f6147d653fb02c17e666cfc89c0ddc54d5b48d1cabdfed4ec124f99bdb"

\* usize, as on the wasm32 target the SDK is built for: 32 bits, kept as two
\* 16-bit halves.  overflow_checks is the build's choice for arithmetic that
\* overflows: to panic (the default of a debug build) or to wrap (the
\* default of a release build).
Half == 65536

usize(n) == [hi |-> n \div Half, lo |-> n % Half]

\* the outcome of a call that panics
Panic == [tag |-> "Panic"]

panicked(x) == "hi" \notin DOMAIN x

usize_lt(a, b) == a.hi < b.hi \/ (a.hi = b.hi /\ a.lo < b.lo)

\* a - b
usize_sub(a, b, overflow_checks) ==
    IF panicked(a) \/ panicked(b) THEN Panic
    ELSE IF usize_lt(a, b) /\ overflow_checks THEN Panic
    ELSE [ hi |-> (a.hi - b.hi - (IF a.lo < b.lo THEN 1 ELSE 0)) % Half,
           lo |-> (a.lo - b.lo) % Half ]

\* a + b
usize_add(a, b, overflow_checks) ==
    IF panicked(a) \/ panicked(b) THEN Panic
    ELSE LET hi == a.hi + b.hi + ((a.lo + b.lo) \div Half)
         IN  IF hi >= Half /\ overflow_checks THEN Panic
             ELSE [ hi |-> hi % Half, lo |-> (a.lo + b.lo) % Half ]

\* a / d, for a small d that is not zero
usize_div(a, d) ==
    IF panicked(a) THEN Panic
    ELSE [ hi |-> a.hi \div d, lo |-> ((a.hi % d) * Half + a.lo) \div d ]

\* fn hash(hash_length, key): the first hash_length characters of the digest
hash(hash_length, key) == SubSeq(Sha512Hex(key), 1, hash_length)

\* fn hash, line 43: the slice panics when hash_length is beyond the digest
hash_panics(hash_length, key) ==
    hash_length.hi > 0 \/ hash_length.lo > Len(Sha512Hex(key))

\* KeyHashAddresser::new
KeyHashAddresser_new(prefix) == [prefix |-> prefix]

\* KeyHash_compute that cuts the hash one character short
KeyHash_compute_short(self, keys, overflow_checks) ==
    LET hash_length ==
            usize_sub(usize_sub(usize(ADDRESS_LENGTH), usize(Len(self.prefix)),
                                overflow_checks), usize(1), overflow_checks)
    IN  IF panicked(hash_length) THEN Panic
        ELSE IF hash_panics(hash_length, keys) THEN Panic
        ELSE Ok(self.prefix \o hash(hash_length.lo, keys))

\* <KeyHashAddresser as Addresser<String>>::compute
KeyHash_compute(self, keys, overflow_checks) ==
    LET hash_length ==
            usize_sub(usize(ADDRESS_LENGTH), usize(Len(self.prefix)),
                      overflow_checks)
    IN  IF panicked(hash_length) THEN Panic
        ELSE IF hash_panics(hash_length, keys) THEN Panic
        ELSE Ok(self.prefix \o hash(hash_length.lo, keys))

\* <KeyHashAddresser as Addresser<String>>::normalize
KeyHash_normalize(self, key) == key

\* DoubleKeyHashAddresser_new whose default length is the half rounded up
DoubleKeyHashAddresser_new_half_up(prefix, first_hash_length, overflow_checks) ==
    LET default ==
            usize_div(usize_add(usize_sub(usize(ADDRESS_LENGTH),
                                          usize(Len(prefix)), overflow_checks),
                                usize(1), overflow_checks), 2)
    IN  IF panicked(default) THEN Panic
        ELSE [ prefix |-> prefix,
               first_hash_length |->
                   IF first_hash_length.some THEN first_hash_length.val
                   ELSE default ]

\* DoubleKeyHashAddresser::new: first_hash_length is the Option handed in;
\* the default is computed whether it is used or not
DoubleKeyHashAddresser_new(prefix, first_hash_length, overflow_checks) ==
    LET default ==
            usize_div(usize_sub(usize(ADDRESS_LENGTH), usize(Len(prefix)),
                                overflow_checks), 2)
    IN  IF panicked(default) THEN Panic
        ELSE [ prefix |-> prefix,
               first_hash_length |->
                   IF first_hash_length.some THEN first_hash_length.val
                   ELSE default ]

\* DoubleKey_compute that cuts both segments to the first length
DoubleKey_compute_even(self, keys, overflow_checks) ==
    LET hash_length ==
            usize_sub(usize(ADDRESS_LENGTH), usize(Len(self.prefix)),
                      overflow_checks)
    IN  IF panicked(hash_length) THEN Panic
        ELSE IF hash_panics(self.first_hash_length, keys[1]) THEN Panic
        ELSE Ok(self.prefix \o hash(self.first_hash_length.lo, keys[1])
                            \o hash(self.first_hash_length.lo, keys[2]))

\* DoubleKey_compute that joins the segments as normalize joins the keys
DoubleKey_compute_joined(self, keys, overflow_checks) ==
    LET hash_length ==
            usize_sub(usize(ADDRESS_LENGTH), usize(Len(self.prefix)),
                      overflow_checks)
        second_hash_length ==
            usize_sub(usize_sub(hash_length, self.first_hash_length,
                                overflow_checks), usize(1), overflow_checks)
    IN  IF panicked(second_hash_length) THEN Panic
        ELSE IF \/ hash_panics(self.first_hash_length, keys[1])
                \/ hash_panics(second_hash_length, keys[2]) THEN Panic
        ELSE Ok(self.prefix \o hash(self.first_hash_length.lo, keys[1]) \o "_"
                            \o hash(second_hash_length.lo, keys[2]))

\* <DoubleKeyHashAddresser as Addresser<(String, String)>>::compute
DoubleKey_compute(self, keys, overflow_checks) ==
    LET hash_length ==
            usize_sub(usize(ADDRESS_LENGTH), usize(Len(self.prefix)),
                      overflow_checks)
        second_hash_length ==
            usize_sub(hash_length, self.first_hash_length, overflow_checks)
        total ==
            usize_add(usize_add(usize(Len(self.prefix)), self.first_hash_length,
                                overflow_checks),
                      second_hash_length, overflow_checks)
    IN  IF panicked(total) THEN Panic
        ELSE IF total # usize(ADDRESS_LENGTH) THEN Err("AddresserError")
        ELSE IF \/ hash_panics(self.first_hash_length, keys[1])
                \/ hash_panics(second_hash_length, keys[2]) THEN Panic
        ELSE Ok(self.prefix \o hash(self.first_hash_length.lo, keys[1])
                            \o hash(second_hash_length.lo, keys[2]))

\* <DoubleKeyHashAddresser as Addresser<(String, String)>>::normalize
DoubleKey_normalize(self, keys) == keys[1] \o "_" \o keys[2]

\* calculate_hash_lengths that halves what the prefix leaves, without taking
\* the given length off first
calculate_hash_lengths_unreduced(prefix_length, first_length, second_length, overflow_checks) ==
    LET remaining ==
            usize_sub(usize(ADDRESS_LENGTH), prefix_length, overflow_checks)
        first ==
            IF first_length.some THEN first_length.val
            ELSE IF second_length.some THEN usize_div(remaining, 2)
            ELSE usize_div(remaining, 3)
        second ==
            IF second_length.some THEN second_length.val
            ELSE IF first_length.some THEN usize_div(remaining, 2)
            ELSE usize_div(remaining, 3)
    IN  IF panicked(first) \/ panicked(second) THEN Panic
        ELSE [first |-> first, second |-> second]

\* calculate_hash_lengths whose thirds are rounded up
calculate_hash_lengths_thirds_up(prefix_length, first_length, second_length, overflow_checks) ==
    LET remaining ==
            usize_sub(usize(ADDRESS_LENGTH), prefix_length, overflow_checks)
        first ==
            IF first_length.some THEN first_length.val
            ELSE IF second_length.some
            THEN usize_div(usize_sub(remaining, second_length.val,
                                     overflow_checks), 2)
            ELSE usize_div(usize_add(remaining, usize(2), overflow_checks), 3)
        second ==
            IF second_length.some THEN second_length.val
            ELSE IF first_length.some
            THEN usize_div(usize_sub(remaining, first_length.val,
                                     overflow_checks), 2)
            ELSE usize_div(usize_add(remaining, usize(2), overflow_checks), 3)
    IN  IF panicked(first) \/ panicked(second) THEN Panic
        ELSE [first |-> first, second |-> second]

\* fn calculate_hash_lengths: the lengths of the first and second segment
calculate_hash_lengths(prefix_length, first_length, second_length, overflow_checks) ==
    LET remaining ==
            usize_sub(usize(ADDRESS_LENGTH), prefix_length, overflow_checks)
        first ==
            IF first_length.some THEN first_length.val
            ELSE IF second_length.some
            THEN usize_div(usize_sub(remaining, second_length.val,
                                     overflow_checks), 2)
            ELSE usize_div(remaining, 3)
        second ==
            IF second_length.some THEN second_length.val
            ELSE IF first_length.some
            THEN usize_div(usize_sub(remaining, first_length.val,
                                     overflow_checks), 2)
            ELSE usize_div(remaining, 3)
    IN  IF panicked(first) \/ panicked(second) THEN Panic
        ELSE [first |-> first, second |-> second]

\* TripleKeyHashAddresser::new
TripleKeyHashAddresser_new(prefix, first_hash_length, second_hash_length, overflow_checks) ==
    LET lengths ==
            calculate_hash_lengths(usize(Len(prefix)), first_hash_length,
                                   second_hash_length, overflow_checks)
    IN  IF "first" \notin DOMAIN lengths THEN Panic
        ELSE [ prefix |-> prefix,
               first_hash_length |-> lengths.first,
               second_hash_length |-> lengths.second ]

\* <TripleKeyHashAddresser as Addresser<(String, String, String)>>::compute
TripleKey_compute(self, keys, overflow_checks) ==
    LET hash_length ==
            usize_sub(usize(ADDRESS_LENGTH), usize(Len(self.prefix)),
                      overflow_checks)
        last_hash_length ==
            usize_sub(hash_length,
                      usize_add(self.first_hash_length, self.second_hash_length,
                                overflow_checks),
                      overflow_checks)
        total ==
            usize_add(usize_add(usize_add(usize(Len(self.prefix)),
                                          self.first_hash_length, overflow_checks),
                                self.second_hash_length, overflow_checks),
                      last_hash_length, overflow_checks)
    IN  IF panicked(total) THEN Panic
        ELSE IF total # usize(ADDRESS_LENGTH) THEN Err("AddresserError")
        ELSE IF \/ hash_panics(self.first_hash_length, keys[1])
                \/ hash_panics(self.second_hash_length, keys[2])
                \/ hash_panics(last_hash_length, keys[3]) THEN Panic
        ELSE Ok(self.prefix \o hash(self.first_hash_length.lo, keys[1])
                            \o hash(self.second_hash_length.lo, keys[2])
                            \o hash(last_hash_length.lo, keys[3]))

\* normalize of three components that leaves the separators out
TripleKey_normalize_unseparated(self, keys) == keys[1] \o keys[2] \o keys[3]

\* <TripleKeyHashAddresser as Addresser<(String, String, String)>>::normalize
TripleKey_normalize(self, keys) == keys[1] \o "_" \o keys[2] \o "_" \o keys[3]

(***************************************************************************)
(* The configuration the context is run with: a double-key addresser with  *)
(* a 68 character prefix, so that each key component contributes a single  *)
(* hexadecimal character and distinct keys do share addresses.             *)
(***************************************************************************)
Prefix ==
    "00000000000000000000000000000000000000000000000000000000000000000000"

\* (no operation on its lengths overflows, whatever the build)
TheAddresser == DoubleKeyHashAddresser_new(Prefix, None, TRUE)

\* the natural keys the callers use
Keys == { <<"a_b", "c">>, <<"a", "b_c">>, <<"b", "c">> }

\* self.addresser.compute and self.addresser.normalize of the context, for
\* the keys the callers use (compute is Ok for this configuration)
AddressOf ==
    [ keys \in Keys |-> DoubleKey_compute(TheAddresser, keys, TRUE).val ]
NormalizedOf == [ keys \in Keys |-> DoubleKey_normalize(TheAddresser, keys) ]

compute(keys) == AddressOf[keys]
normalize(keys) == NormalizedOf[keys]

\* the arguments of the batch calls: the key sets of set_state_entries and
\* the key lists of get_state_entries and delete_state_entries (lists in
\* every order, without a key listed twice)
KeySets == { S \in SUBSET Keys : Cardinality(S) <= MaxBatch }
KeyLists == SeqsUpTo(Keys, MaxBatch)

\* ValueType (protocol::simple_state), the variants the tests use
Int32(n) == [type |-> "Int32", v |-> n]
Int64(n) == [type |-> "Int64", v |-> n]
String(s) == [type |-> "String", v |-> s]

\* the value mappings (HashMap<String, ValueType>) the callers store
ValueMaps ==
    { ("key1" :> Int32(32)) @@ ("key2" :> String("String")),
      ("key1" :> Int64(64)) }


(***************************************************************************)
(* The raw store (TransactionContext), as TestState implements it: a map   *)
(* from addresses to payloads.                                             *)
(***************************************************************************)
\* TestState::get_entries: the (address, payload) pairs of the addresses
\* that exist, in the order asked
get_entries(st, addresses) ==
    LET found == SelectSeq(addresses, LAMBDA a : a \in DOMAIN st)
    IN  [ i \in 1..Len(found) |-> <<found[i], st[found[i]]>> ]

\* TestState::set_entries: inserts the pairs one after the other
RECURSIVE set_entries(_, _)
set_entries(st, entries) ==
    IF entries = <<>> THEN st
    ELSE LET key == entries[1][1]
             value == entries[1][2]
             inserted == [ a \in DOMAIN st \cup {key} |->
                             IF a = key THEN value ELSE st[a] ]
         IN  set_entries(inserted, Tail(entries))

\* TestState::delete_entries: removes the addresses one after the other;
\* the result is the state afterwards and the list of the addresses that
\* were removed
RECURSIVE delete_entries(_, _)
delete_entries(st, addresses) ==
    IF addresses = <<>> THEN [state |-> st, deleted |-> <<>>]
    ELSE LET key == addresses[1]
             removed == [ a \in DOMAIN st \ {key} |-> st[a] ]
             rest == delete_entries(removed, Tail(addresses))
         IN  [ state |-> rest.state,
               deleted |-> IF key \in DOMAIN st
                           THEN <<key>> \o rest.deleted
                           ELSE rest.deleted ]

(***************************************************************************)
(* protocol::simple_state: StateEntryValue, StateEntry, StateEntryList.    *)
(***************************************************************************)
\* StateEntryValueBuilder ... build
StateEntryValue(key, value) == [key |-> key, value |-> value]

\* StateEntryBuilder ... build
StateEntry(normalized_key, state_entry_values) ==
    [ normalized_key |-> normalized_key,
      state_entry_values |-> state_entry_values ]

\* StateEntryListBuilder ... build
StateEntryList(entries) == [entries |-> entries]

\* StateEntryList::contains
contains(list, key) ==
    \E i \in 1..Len(list.entries) : list.entries[i].normalized_key = key

\* IntoBytes for StateEntryList: the payload written at an address
into_bytes(list) == [bytes |-> list.entries]

\* FromBytes for StateEntryList
from_bytes(payload) == StateEntryList(payload.bytes)

(***************************************************************************)
(* context.rs: KeyValueTransactionContext                                  *)
(***************************************************************************)
\* collecting into a HashMap that keeps the first pair of a key
collect_map_first(pairs) ==
    [ k \in { pairs[i][1] : i \in 1..Len(pairs) } |->
        LET first == CHOOSE i \in 1..Len(pairs) :
                         /\ pairs[i][1] = k
                         /\ \A j \in 1..Len(pairs) : pairs[j][1] = k => i <= j
        IN  pairs[first][2] ]

\* collecting a sequence of (key, value) pairs into a HashMap: a later pair
\* replaces an earlier one with the same key
collect_map(pairs) ==
    [ k \in { pairs[i][1] : i \in 1..Len(pairs) } |->
        LET last == CHOOSE i \in 1..Len(pairs) :
                        /\ pairs[i][1] = k
                        /\ \A j \in 1..Len(pairs) : pairs[j][1] = k => j <= i
        IN  pairs[last][2] ]

\* get_state_entry_lists: the StateEntryList of every address that exists
get_state_entry_lists(st, addresses) ==
    LET fetched == get_entries(st, addresses)
    IN  collect_map([ i \in 1..Len(fetched) |->
                        <<fetched[i][1], from_bytes(fetched[i][2])>> ])

\* create_state_entry.  The Vec of StateEntryValues is filled in the
\* iteration order of the HashMap of values, which is unspecified, and its
\* only reader collects it into a HashMap again: the model keeps the Vec up
\* to its order, as the set of its elements.
create_state_entry(key, values) ==
    StateEntry(normalize(key),
               { StateEntryValue(name, values[name]) : name \in DOMAIN values })

\* new_entry_list with the new entry put in front of the existing ones
new_entry_list_in_front(entry_list_map, addr, state_entry) ==
    IF addr \in DOMAIN entry_list_map
    THEN StateEntryList(<<state_entry>> \o entry_list_map[addr].entries)
    ELSE StateEntryList(<<state_entry>>)

\* new_entry_list that forgets the existing entries of the address
new_entry_list_alone(entry_list_map, addr, state_entry) ==
    StateEntryList(<<state_entry>>)

\* set_state_entries, lines 146-163: the bucket written for one key
new_entry_list(entry_list_map, addr, state_entry) ==
    IF addr \in DOMAIN entry_list_map
    THEN StateEntryList(Append(entry_list_map[addr].entries, state_entry))
    ELSE StateEntryList(<<state_entry>>)

\* set_state_entries: entries is the HashMap of the call and keys_order the
\* order in which it is iterated.  The result is the raw store afterwards.
set_state_entries(st, entries, keys_order) ==
    LET addresses == [ i \in 1..Len(keys_order) |-> compute(keys_order[i]) ]
        entry_list_map == get_state_entry_lists(st, addresses)
        entries_list ==
            [ i \in 1..Len(keys_order) |->
                LET key == keys_order[i]
                    addr == compute(key)
                    state_entry == create_state_entry(key, entries[key])
                IN  <<addr,
                      into_bytes(new_entry_list(entry_list_map, addr, state_entry))>> ]
    IN  set_entries(st, entries_list)

\* set_state_entry
set_state_entry(st, key, values) ==
    set_state_entries(st, key :> values, <<key>>)

\* flatten_state_entries: addresses_order is the order in which the HashMap
\* of the fetched StateEntryLists is iterated
RECURSIVE flatten(_, _)
flatten(entry_lists, addresses_order) ==
    IF addresses_order = <<>> THEN <<>>
    ELSE entry_lists[addresses_order[1]].entries
             \o flatten(entry_lists, Tail(addresses_order))

flatten_state_entries(st, addresses, addresses_order) ==
    flatten(get_state_entry_lists(st, addresses), addresses_order)

\* get_state_entries, lines 202-206: the values of an entry as a HashMap
entry_values(entry) ==
    [ name \in { val.key : val \in entry.state_entry_values } |->
        (CHOOSE val \in entry.state_entry_values : val.key = name).value ]

\* get_state_entries: the HashMap from normalized key to values
get_state_entries(st, keys, addresses_order) ==
    LET addresses == [ i \in 1..Len(keys) |-> compute(keys[i]) ]
        normalized_keys == [ i \in 1..Len(keys) |-> normalize(keys[i]) ]
        state_entries == flatten_state_entries(st, addresses, addresses_order)
        matching == SelectSeq(state_entries,
                        LAMBDA entry : entry.normalized_key \in Range(normalized_keys))
    IN  collect_map([ i \in 1..Len(matching) |->
                        <<matching[i].normalized_key, entry_values(matching[i])>> ])

\* the orders in which get_state_entries may iterate the fetched lists
AddressOrders(st, keys) ==
    Perms({ compute(keys[i]) : i \in 1..Len(keys) } \cap DOMAIN st)

\* get_state_entry: the first value of the HashMap get_state_entries
\* returns for the single key, if there is one
get_state_entry(st, key) ==
    LET found == get_state_entries(st, <<key>>,
                     CHOOSE o \in AddressOrders(st, <<key>>) : TRUE)
    IN  IF DOMAIN found = {} THEN None
        ELSE Some(found[CHOOSE n \in DOMAIN found : TRUE])

\* delete_state_entries, lines 221-224: the HashMap from normalized key to
\* address of the keys of the call
KeyMapOf ==
    [ keys \in KeyLists |->
        collect_map([ i \in 1..Len(keys) |->
                        <<normalize(keys[i]), compute(keys[i])>> ]) ]

key_map_of(keys) == KeyMapOf[keys]

\* filtered_entries that removes only the first entry with the normalized key
RECURSIVE without_first(_, _)
without_first(entries, nkey) ==
    IF entries = <<>> THEN <<>>
    ELSE IF Head(entries).normalized_key = nkey THEN Tail(entries)
    ELSE <<Head(entries)>> \o without_first(Tail(entries), nkey)

filtered_entries_first_only(list, nkey) == without_first(list.entries, nkey)

\* filtered_entries that keeps only the entries in front of the first one
\* with the normalized key
RECURSIVE before_first(_, _)
before_first(entries, nkey) ==
    IF entries = <<>> \/ Head(entries).normalized_key = nkey THEN <<>>
    ELSE <<Head(entries)>> \o before_first(Tail(entries), nkey)

filtered_entries_before(list, nkey) == before_first(list.entries, nkey)

\* delete_state_entries, lines 242-247: the entries of the list that do not
\* have the normalized key
filtered_entries(list, nkey) ==
    SelectSeq(list.entries, LAMBDA e : e.normalized_key # nkey)

\* deleted_keys_of without the test that the list contains the key
deleted_keys_of_any(key_map, state_entry_lists, nkeys_order) ==
    SelectSeq(nkeys_order,
        LAMBDA nkey : key_map[nkey] \in DOMAIN state_entry_lists)

\* delete_state_entries, lines 235-256: the normalized keys found in their
\* StateEntryList, in the order in which key_map is iterated
deleted_keys_of(key_map, state_entry_lists, nkeys_order) ==
    SelectSeq(nkeys_order,
        LAMBDA nkey : /\ key_map[nkey] \in DOMAIN state_entry_lists
                      /\ contains(state_entry_lists[key_map[nkey]], nkey))

\* delete_lists_of that asks for every fetched address to be deleted
delete_lists_of_fetched(key_map, state_entry_lists, deleted_keys) ==
    CHOOSE addresses \in Perms(DOMAIN state_entry_lists) : TRUE

\* delete_lists_of that never asks for an address to be deleted
delete_lists_of_none(key_map, state_entry_lists, deleted_keys) == <<>>

\* delete_state_entries, lines 248-249: the addresses to delete
delete_lists_of(key_map, state_entry_lists, deleted_keys) ==
    LET emptied == SelectSeq(deleted_keys,
            LAMBDA nkey :
                filtered_entries(state_entry_lists[key_map[nkey]], nkey) = <<>>)
    IN  [ i \in 1..Len(emptied) |-> key_map[emptied[i]] ]

\* new_entry_lists_of that also writes back the lists that are empty
new_entry_lists_of_all(key_map, state_entry_lists, deleted_keys) ==
    [ i \in 1..Len(deleted_keys) |->
        << key_map[deleted_keys[i]],
           filtered_entries(state_entry_lists[key_map[deleted_keys[i]]],
                            deleted_keys[i]) >> ]

\* delete_state_entries, lines 250-252: the filtered lists to write back
new_entry_lists_of(key_map, state_entry_lists, deleted_keys) ==
    LET kept == SelectSeq(deleted_keys,
            LAMBDA nkey :
                filtered_entries(state_entry_lists[key_map[nkey]], nkey) # <<>>)
    IN  [ i \in 1..Len(kept) |->
            << key_map[kept[i]],
               filtered_entries(state_entry_lists[key_map[kept[i]]], kept[i]) >> ]

\* delete_state_entries: nkeys_order is the order in which key_map is
\* iterated.  The result is the raw store afterwards and the returned list.
delete_state_entries(st, keys, nkeys_order) ==
    LET key_map == key_map_of(keys)
        state_entry_lists ==
            get_state_entry_lists(st,
                [ i \in 1..Len(nkeys_order) |-> key_map[nkeys_order[i]] ])
        deleted_keys == deleted_keys_of(key_map, state_entry_lists, nkeys_order)
        delete_lists == delete_lists_of(key_map, state_entry_lists, deleted_keys)
        new_entry_lists ==
            new_entry_lists_of(key_map, state_entry_lists, deleted_keys)
        after_delete == delete_entries(st, delete_lists).state
        after_set ==
            set_entries(after_delete,
                [ i \in 1..Len(new_entry_lists) |->
                    << new_entry_lists[i][1],
                       into_bytes(StateEntryList(new_entry_lists[i][2])) >> ])
    IN  [ state |-> after_set, deleted_keys |-> deleted_keys ]

\* the orders in which delete_state_entries may iterate key_map
NKeyOrdersOf == [ keys \in KeyLists |-> Perms(DOMAIN key_map_of(keys)) ]

NKeyOrders(keys) == NKeyOrdersOf[keys]

\* delete_state_entry: the first of the deleted keys, if there is one
delete_state_entry(st, key) ==
    LET res == delete_state_entries(st, <<key>>, <<normalize(key)>>)
    IN  [ state |-> res.state,
          deleted |-> IF res.deleted_keys = <<>> THEN None
                      ELSE Some(res.deleted_keys[1]) ]

(***************************************************************************)
(* The same operations with their failures and with the calls they make to *)
(* the raw store (the TransactionContext the context wraps).  Every        *)
(* operator returns ret, the Result handed to the caller, state, the raw   *)
(* store afterwards, and calls, the raw calls issued, in order.  fault     *)
(* names the raw call the store refuses during the operation ("none" if    *)
(* it refuses none); a refused call leaves the store as it was.            *)
(***************************************************************************)
\* the calls of the TransactionContext
RawGet(addresses) == [call |-> "get_state_entries", addresses |-> addresses]
RawSet(entries) == [call |-> "set_state_entries", entries |-> entries]
RawDelete(addresses) == [call |-> "delete_state_entries", addresses |-> addresses]

\* the faults that matter to an operation: those of the raw calls it makes
GetFaults == { "none", "get_state_entries" }
SetFaults == GetFaults \cup { "set_state_entries" }
DeleteFaults == SetFaults \cup { "delete_state_entries" }

\* a payload that was not written by into_bytes of a StateEntryList
Unparsable == [garbage |-> "not a StateEntryList"]

\* FromBytes for StateEntryList, as a Result
try_from_bytes(payload) ==
    IF "bytes" \in DOMAIN payload THEN Ok(from_bytes(payload))
    ELSE Err("ProtoConversionError")

\* StateEntryValueBuilder ... build, as a Result
StateEntryValueBuilder_build(key, value) == Ok(StateEntryValue(key, value))

\* StateEntryBuilder ... build, as a Result: a record needs values
StateEntryBuilder_build(normalized_key, state_entry_values) ==
    IF state_entry_values = {} THEN Err("ProtocolBuildError")
    ELSE Ok(StateEntry(normalized_key, state_entry_values))

\* StateEntryListBuilder ... build, as a Result: a list needs entries
StateEntryListBuilder_build(entries) ==
    IF entries = <<>> THEN Err("ProtocolBuildError")
    ELSE Ok(StateEntryList(entries))

\* An Addresser<K> may refuse keys: the context is generic in its addresser
\* and compute returns a Result.  The addresser of these runs refuses the
\* keys in RejectedKeys and answers as TheAddresser for the others.
RejectedKeys == { <<"c", "c">> }

try_compute(keys) ==
    IF keys \in RejectedKeys THEN Err("AddresserError") ELSE Ok(compute(keys))

\* the first error of a sequence of Results, if there is one
FirstErr(results) ==
    results[CHOOSE i \in 1..Len(results) :
                /\ results[i].tag = "Err"
                /\ \A j \in 1..(i - 1) : results[j].tag = "Ok"]

AllOk(results) == \A i \in 1..Len(results) : results[i].tag = "Ok"

\* get_state_entry_lists_run that takes a payload it cannot parse for an
\* address that does not exist
get_state_entry_lists_run_lenient(st, addresses, fault) ==
    LET calls == << RawGet(addresses) >>
        parsable == [ a \in { b \in DOMAIN st : "bytes" \in DOMAIN st[b] } |-> st[a] ]
    IN  IF fault = "get_state_entries"
        THEN [ret |-> Err("SdkError"), calls |-> calls]
        ELSE [ret |-> Ok(get_state_entry_lists(parsable, addresses)),
              calls |-> calls]

\* get_state_entry_lists, lines 291-302
get_state_entry_lists_run(st, addresses, fault) ==
    LET calls == << RawGet(addresses) >>
        fetched == get_entries(st, addresses)
        parsed == [ i \in 1..Len(fetched) |-> try_from_bytes(fetched[i][2]) ]
    IN  IF fault = "get_state_entries"
        THEN [ret |-> Err("SdkError"), calls |-> calls]
        ELSE IF ~AllOk(parsed)
        THEN [ret |-> FirstErr(parsed), calls |-> calls]
        ELSE [ret |-> Ok(get_state_entry_lists(st, addresses)), calls |-> calls]

\* create_state_entry, lines 305-325
create_state_entry_run(key, values) ==
    LET state_values ==
            { StateEntryValueBuilder_build(name, values[name]) :
                  name \in DOMAIN values }
    IN  IF \E r \in state_values : r.tag = "Err"
        THEN Err("ProtocolBuildError")
        ELSE StateEntryBuilder_build(normalize(key),
                                     { r.val : r \in state_values })

\* set_state_entries, lines 141-165: the (address, payload) pair of one key
entry_of_run(entry_list_map, key, values) ==
    LET addr == compute(key)
        state_entry == create_state_entry_run(key, values)
    IN  IF state_entry.tag = "Err" THEN state_entry
        ELSE LET entry_list ==
                     StateEntryListBuilder_build(
                         new_entry_list(entry_list_map, addr,
                                        state_entry.val).entries)
             IN  IF entry_list.tag = "Err" THEN entry_list
                 ELSE Ok(<<addr, into_bytes(entry_list.val)>>)

\* set_state_entries_run that hands the raw set the pairs it could build when
\* the build of another pair fails
set_state_entries_run_partial(st, entries, keys_order, fault) ==
    LET computed == [ i \in 1..Len(keys_order) |-> try_compute(keys_order[i]) ]
        addresses == [ i \in 1..Len(keys_order) |-> computed[i].val ]
        fetched == get_state_entry_lists_run(st, addresses, fault)
        entries_list ==
            [ i \in 1..Len(keys_order) |->
                entry_of_run(fetched.ret.val, keys_order[i],
                             entries[keys_order[i]]) ]
        built == SelectSeq(entries_list, LAMBDA e : e.tag = "Ok")
        pairs == [ i \in 1..Len(built) |-> built[i].val ]
    IN  IF ~AllOk(computed)
        THEN [ret |-> FirstErr(computed), state |-> st, calls |-> <<>>]
        ELSE IF fetched.ret.tag = "Err"
        THEN [ret |-> fetched.ret, state |-> st, calls |-> fetched.calls]
        ELSE IF fault = "set_state_entries"
        THEN [ret |-> Err("SdkError"), state |-> st,
              calls |-> Append(fetched.calls, RawSet(pairs))]
        ELSE [ret |-> IF AllOk(entries_list) THEN Ok(<<>>)
                      ELSE FirstErr(entries_list),
              state |-> set_entries(st, pairs),
              calls |-> Append(fetched.calls, RawSet(pairs))]

\* set_state_entries, lines 125-169
set_state_entries_run(st, entries, keys_order, fault) ==
    LET computed == [ i \in 1..Len(keys_order) |-> try_compute(keys_order[i]) ]
        addresses == [ i \in 1..Len(keys_order) |-> computed[i].val ]
        fetched == get_state_entry_lists_run(st, addresses, fault)
        entries_list ==
            [ i \in 1..Len(keys_order) |->
                entry_of_run(fetched.ret.val, keys_order[i],
                             entries[keys_order[i]]) ]
        pairs == [ i \in 1..Len(keys_order) |-> entries_list[i].val ]
    IN  IF ~AllOk(computed)
        THEN [ret |-> FirstErr(computed), state |-> st, calls |-> <<>>]
        ELSE IF fetched.ret.tag = "Err"
        THEN [ret |-> fetched.ret, state |-> st, calls |-> fetched.calls]
        ELSE IF ~AllOk(entries_list)
        THEN [ret |-> FirstErr(entries_list), state |-> st,
              calls |-> fetched.calls]
        ELSE IF fault = "set_state_entries"
        THEN [ret |-> Err("SdkError"), state |-> st,
              calls |-> Append(fetched.calls, RawSet(pairs))]
        ELSE [ret |-> Ok(<<>>), state |-> set_entries(st, pairs),
              calls |-> Append(fetched.calls, RawSet(pairs))]

\* set_state_entry, lines 70-78
set_state_entry_run(st, key, values, fault) ==
    set_state_entries_run(st, key :> values, <<key>>, fault)

\* get_state_entries, lines 181-210
get_state_entries_run(st, keys, addresses_order, fault) ==
    LET computed == [ i \in 1..Len(keys) |-> try_compute(keys[i]) ]
        addresses == [ i \in 1..Len(keys) |-> computed[i].val ]
        fetched == get_state_entry_lists_run(st, addresses, fault)
    IN  IF ~AllOk(computed)
        THEN [ret |-> FirstErr(computed), state |-> st, calls |-> <<>>]
        ELSE IF fetched.ret.tag = "Err"
        THEN [ret |-> fetched.ret, state |-> st, calls |-> fetched.calls]
        ELSE [ret |-> Ok(get_state_entries(st, keys, addresses_order)),
              state |-> st, calls |-> fetched.calls]

\* get_state_entry, lines 94-98: the first value of the map, if the batch
\* call returned one
first_value_of(res) ==
    IF res.ret.tag = "Err" THEN res
    ELSE [ret |-> Ok(IF DOMAIN res.ret.val = {} THEN None
                     ELSE Some(res.ret.val[CHOOSE n \in DOMAIN res.ret.val : TRUE])),
          state |-> res.state, calls |-> res.calls]

\* get_state_entry, lines 90-99
get_state_entry_run(st, key, fault) ==
    first_value_of(
        get_state_entries_run(st, <<key>>,
            IF key \in RejectedKeys THEN <<>>
            ELSE CHOOSE o \in AddressOrders(st, <<key>>) : TRUE,
            fault))

\* delete_state_entries_run that goes on to the raw set when the raw delete
\* is refused
delete_state_entries_run_on(st, keys, nkeys_order, fault) ==
    LET computed == [ i \in 1..Len(keys) |-> try_compute(keys[i]) ]
        key_map == key_map_of(keys)
        fetched ==
            get_state_entry_lists_run(st,
                [ i \in 1..Len(nkeys_order) |-> key_map[nkeys_order[i]] ],
                fault)
        state_entry_lists == fetched.ret.val
        deleted_keys == deleted_keys_of(key_map, state_entry_lists, nkeys_order)
        delete_lists == delete_lists_of(key_map, state_entry_lists, deleted_keys)
        new_entry_lists ==
            new_entry_lists_of(key_map, state_entry_lists, deleted_keys)
        with_delete == Append(fetched.calls, RawDelete(delete_lists))
        after_delete == IF fault = "delete_state_entries" THEN st
                        ELSE delete_entries(st, delete_lists).state
        built == [ i \in 1..Len(new_entry_lists) |->
                     StateEntryListBuilder_build(new_entry_lists[i][2]) ]
        pairs == [ i \in 1..Len(new_entry_lists) |->
                     << new_entry_lists[i][1], into_bytes(built[i].val) >> ]
    IN  IF ~AllOk(computed)
        THEN [ret |-> FirstErr(computed), state |-> st, calls |-> <<>>]
        ELSE IF fetched.ret.tag = "Err"
        THEN [ret |-> fetched.ret, state |-> st, calls |-> fetched.calls]
        ELSE IF ~AllOk(built)
        THEN [ret |-> FirstErr(built), state |-> after_delete,
              calls |-> with_delete]
        ELSE IF fault = "set_state_entries"
        THEN [ret |-> Err("SdkError"), state |-> after_delete,
              calls |-> Append(with_delete, RawSet(pairs))]
        ELSE [ret |-> Ok(deleted_keys), state |-> set_entries(after_delete, pairs),
              calls |-> Append(with_delete, RawSet(pairs))]

\* delete_state_entries that puts the deleted addresses back when its raw
\* set fails
delete_state_entries_run_undone(st, keys, nkeys_order, fault) ==
    LET computed == [ i \in 1..Len(keys) |-> try_compute(keys[i]) ]
        key_map == key_map_of(keys)
        fetched ==
            get_state_entry_lists_run(st,
                [ i \in 1..Len(nkeys_order) |-> key_map[nkeys_order[i]] ],
                fault)
        state_entry_lists == fetched.ret.val
        deleted_keys == deleted_keys_of(key_map, state_entry_lists, nkeys_order)
        delete_lists == delete_lists_of(key_map, state_entry_lists, deleted_keys)
        new_entry_lists ==
            new_entry_lists_of(key_map, state_entry_lists, deleted_keys)
        with_delete == Append(fetched.calls, RawDelete(delete_lists))
        after_delete == delete_entries(st, delete_lists).state
        built == [ i \in 1..Len(new_entry_lists) |->
                     StateEntryListBuilder_build(new_entry_lists[i][2]) ]
        pairs == [ i \in 1..Len(new_entry_lists) |->
                     << new_entry_lists[i][1], into_bytes(built[i].val) >> ]
    IN  IF ~AllOk(computed)
        THEN [ret |-> FirstErr(computed), state |-> st, calls |-> <<>>]
        ELSE IF fetched.ret.tag = "Err"
        THEN [ret |-> fetched.ret, state |-> st, calls |-> fetched.calls]
        ELSE IF fault = "delete_state_entries"
        THEN [ret |-> Err("SdkError"), state |-> st, calls |-> with_delete]
        ELSE IF ~AllOk(built)
        THEN [ret |-> FirstErr(built), state |-> after_delete,
              calls |-> with_delete]
        ELSE IF fault = "set_state_entries"
        THEN [ret |-> Err("SdkError"), state |-> st,
              calls |-> Append(with_delete, RawSet(pairs))]
        ELSE [ret |-> Ok(deleted_keys), state |-> set_entries(after_delete, pairs),
              calls |-> Append(with_delete, RawSet(pairs))]

\* delete_state_entries, lines 220-274
delete_state_entries_run(st, keys, nkeys_order, fault) ==
    LET computed == [ i \in 1..Len(keys) |-> try_compute(keys[i]) ]
        key_map == key_map_of(keys)
        fetched ==
            get_state_entry_lists_run(st,
                [ i \in 1..Len(nkeys_order) |-> key_map[nkeys_order[i]] ],
                fault)
        state_entry_lists == fetched.ret.val
        deleted_keys == deleted_keys_of(key_map, state_entry_lists, nkeys_order)
        delete_lists == delete_lists_of(key_map, state_entry_lists, deleted_keys)
        new_entry_lists ==
            new_entry_lists_of(key_map, state_entry_lists, deleted_keys)
        with_delete == Append(fetched.calls, RawDelete(delete_lists))
        after_delete == delete_entries(st, delete_lists).state
        built == [ i \in 1..Len(new_entry_lists) |->
                     StateEntryListBuilder_build(new_entry_lists[i][2]) ]
        pairs == [ i \in 1..Len(new_entry_lists) |->
                     << new_entry_lists[i][1], into_bytes(built[i].val) >> ]
    IN  IF ~AllOk(computed)
        THEN [ret |-> FirstErr(computed), state |-> st, calls |-> <<>>]
        ELSE IF fetched.ret.tag = "Err"
        THEN [ret |-> fetched.ret, state |-> st, calls |-> fetched.calls]
        ELSE IF fault = "delete_state_entries"
        THEN [ret |-> Err("SdkError"), state |-> st, calls |-> with_delete]
        ELSE IF ~AllOk(built)
        THEN [ret |-> FirstErr(built), state |-> after_delete,
              calls |-> with_delete]
        ELSE IF fault = "set_state_entries"
        THEN [ret |-> Err("SdkError"), state |-> after_delete,
              calls |-> Append(with_delete, RawSet(pairs))]
        ELSE [ret |-> Ok(deleted_keys), state |-> set_entries(after_delete, pairs),
              calls |-> Append(with_delete, RawSet(pairs))]

\* delete_state_entry, line 113: the first of the deleted keys, if the batch
\* call returned them
first_deleted_of(res) ==
    IF res.ret.tag = "Err" THEN res
    ELSE [ret |-> Ok(IF res.ret.val = <<>> THEN None
                     ELSE Some(res.ret.val[1])),
          state |-> res.state, calls |-> res.calls]

\* delete_state_entry, lines 112-114
delete_state_entry_run(st, key, fault) ==
    first_deleted_of(
        delete_state_entries_run(st, <<key>>,
            IF key \in RejectedKeys THEN <<>> ELSE <<normalize(key)>>,
            fault))

(***************************************************************************)
(* The state machine: one context over one raw store, called by one        *)
(* transaction at a time.  last records the call that was made last, with  *)
(* its arguments and its result.                                           *)
(***************************************************************************)
VARIABLES state, last

vars == <<state, last>>

Call(op, keys, entries, ret) ==
    [op |-> op, keys |-> keys, entries |-> entries, ret |-> ret]

\* the number of records in the buckets of the addresses in S
RECURSIVE Records(_, _)
Records(st, S) ==
    IF S = {} THEN 0
    ELSE LET a == CHOOSE x \in S : TRUE
         IN  Len(st[a].bytes) + Records(st, S \ {a})

\* the store holds no more records than the model's bound
WithinBound(st) == Records(st, DOMAIN st) <= MaxRecords

\* the keys of a set, listed in a fixed order
KeyList(ks) == CHOOSE keys \in Perms(ks) : TRUE

\* TestContext::new, KeyValueTransactionContext::new
Init ==
    /\ state = <<>>
    /\ last = Call("new", <<>>, <<>>, Ok(<<>>))

SetStateEntry ==
    \E key \in Keys, values \in ValueMaps :
        LET after == set_state_entry(state, key, values)
        IN  /\ WithinBound(after)
            /\ state' = after
            /\ last' = Call("set_state_entry", <<key>>, key :> values, Ok(<<>>))

SetStateEntries ==
    \E ks \in KeySets :
      \E entries \in [ks -> ValueMaps], keys_order \in Perms(ks) :
        LET after == set_state_entries(state, entries, keys_order)
        IN  /\ WithinBound(after)
            /\ state' = after
            /\ last' = Call("set_state_entries", KeyList(ks), entries, Ok(<<>>))

GetStateEntry ==
    \E key \in Keys :
        /\ last' = Call("get_state_entry", <<key>>, <<>>,
                        Ok(get_state_entry(state, key)))
        /\ UNCHANGED state

GetStateEntries ==
    \E keys \in KeyLists :
      \E addresses_order \in AddressOrders(state, keys) :
        /\ last' = Call("get_state_entries", keys, <<>>,
                        Ok(get_state_entries(state, keys, addresses_order)))
        /\ UNCHANGED state

DeleteStateEntry ==
    \E key \in Keys :
        LET res == delete_state_entry(state, key)
        IN  /\ state' = res.state
            /\ last' = Call("delete_state_entry", <<key>>, <<>>, Ok(res.deleted))

DeleteStateEntries ==
    \E keys \in KeyLists :
      \E nkeys_order \in NKeyOrders(keys) :
        LET res == delete_state_entries(state, keys, nkeys_order)
        IN  /\ state' = res.state
            /\ last' = Call("delete_state_entries", keys, <<>>,
                            Ok(res.deleted_keys))

Next ==
    \/ SetStateEntry
    \/ SetStateEntries
    \/ GetStateEntry
    \/ GetStateEntries
    \/ DeleteStateEntry
    \/ DeleteStateEntries

Spec == Init /\ [][Next]_vars

(***************************************************************************)
(* The state machine of the runs: the same context, called with keys its   *)
(* addresser may refuse and with value mappings that may be empty, over a  *)
(* raw store that may refuse a call and that other users of the            *)
(* TransactionContext write to as well.  last records the call that has    *)
(* returned, with the fault injected and the raw calls issued, until the   *)
(* caller takes the result; the context keeps nothing of a call.           *)
(***************************************************************************)
Run(op, keys, entries, fault, res) ==
    [ op |-> op, keys |-> keys, entries |-> entries, fault |-> fault,
      ret |-> res.ret, calls |-> res.calls ]

RunKeys == Keys \cup RejectedKeys
RunKeySets == { S \in SUBSET RunKeys : Cardinality(S) <= MaxBatch }
RunKeyLists == SeqsUpTo(RunKeys, MaxBatch)
\* the value mappings the callers hand in, the empty one among them
RunValueMaps == ValueMaps \cup { <<>> }

\* the addresses the keys of the callers map to
Addresses == { compute(keys) : keys \in Keys }

\* the addresses that hold a payload the context did not write
Foreign(st) == { a \in DOMAIN st : "bytes" \notin DOMAIN st[a] }

RunWithinBound(st) ==
    /\ Records(st, DOMAIN st \ Foreign(st)) <= MaxRunRecords
    /\ Cardinality(Foreign(st)) <= MaxForeign

RunAddressOrders(st, keys) ==
    IF keys \in KeyLists THEN AddressOrders(st, keys) ELSE { <<>> }

RunNKeyOrders(keys) ==
    IF keys \in KeyLists THEN NKeyOrders(keys) ELSE { <<>> }

\* no call has returned a result the caller has not taken
Idle == Run("idle", <<>>, <<>>, "none", [ret |-> Ok(<<>>), calls |-> <<>>])

InitRun ==
    /\ state = <<>>
    /\ last = Idle

\* the call of op returns res to the caller
Returns(op, keys, entries, fault, res) ==
    /\ RunWithinBound(res.state)
    /\ state' = res.state
    /\ last' = Run(op, keys, entries, fault, res)

SetStateEntryRun ==
    /\ last = Idle
    /\ \E key \in RunKeys, values \in RunValueMaps, fault \in SetFaults :
         Returns("set_state_entry", <<key>>, key :> values, fault,
                 set_state_entry_run(state, key, values, fault))

SetStateEntriesRun ==
    /\ last = Idle
    /\ \E ks \in RunKeySets, fault \in SetFaults :
         \E entries \in [ks -> RunValueMaps], keys_order \in Perms(ks) :
           Returns("set_state_entries", KeyList(ks), entries, fault,
                   set_state_entries_run(state, entries, keys_order, fault))

GetStateEntryRun ==
    /\ last = Idle
    /\ \E key \in RunKeys, fault \in GetFaults :
         Returns("get_state_entry", <<key>>, <<>>, fault,
                 get_state_entry_run(state, key, fault))

GetStateEntriesRun ==
    /\ last = Idle
    /\ \E keys \in RunKeyLists, fault \in GetFaults :
         \E addresses_order \in RunAddressOrders(state, keys) :
           Returns("get_state_entries", keys, <<>>, fault,
                   get_state_entries_run(state, keys, addresses_order, fault))

DeleteStateEntryRun ==
    /\ last = Idle
    /\ \E key \in RunKeys, fault \in DeleteFaults :
         Returns("delete_state_entry", <<key>>, <<>>, fault,
                 delete_state_entry_run(state, key, fault))

DeleteStateEntriesRun ==
    /\ last = Idle
    /\ \E keys \in RunKeyLists, fault \in DeleteFaults :
         \E nkeys_order \in RunNKeyOrders(keys) :
           Returns("delete_state_entries", keys, <<>>, fault,
                   delete_state_entries_run(state, keys, nkeys_order, fault))

\* TransactionContext::set_state_entries called by another user of the raw
\* store, with bytes that are not a StateEntryList
ForeignSetStateEntries ==
    /\ last = Idle
    /\ \E addr \in Addresses :
        LET entries == << <<addr, Unparsable>> >>
            after == set_entries(state, entries)
        IN  /\ RunWithinBound(after)
            /\ state' = after
            /\ UNCHANGED last

\* the caller takes the result of the call
Return ==
    /\ last # Idle
    /\ last' = Idle
    /\ UNCHANGED state

NextRun ==
    \/ SetStateEntryRun
    \/ SetStateEntriesRun
    \/ GetStateEntryRun
    \/ GetStateEntriesRun
    \/ DeleteStateEntryRun
    \/ DeleteStateEntriesRun
    \/ ForeignSetStateEntries
    \/ Return

SpecRun == InitRun /\ [][NextRun]_vars

(***************************************************************************)
(* The state machine of the addressers: an addresser of one of the three   *)
(* kinds is constructed from a prefix and overrides, by a build with or    *)
(* without overflow checks, and compute or normalize is called on it.     *)
(* last records the constructor's arguments, the addresser, and the last   *)
(* call with its outcome.  There is no raw store: state stays empty.       *)
(***************************************************************************)
\* prefixes of every length up to MaxPrefix, made of hexadecimal characters,
\* and the prefix of the tests of addresser.rs
Prefixes ==
    { SubSeq(Sha512Hex("b_c"), 1, n) : n \in 0..MaxPrefix } \cup { "prefix" }

USIZE_MAX == [hi |-> Half - 1, lo |-> Half - 1]

\* the values handed in as first_hash_length and second_hash_length
HashLengths ==
    { None } \cup { Some(usize(n)) : n \in { 0, 1, 10, 14, 16, 32, 35, 64, 65,
                                             70, 71, 129 } }
             \cup { Some(USIZE_MAX) }

\* the keys compute is called with
SingleKeys == { "a", "b" }
DoubleKeys == { <<"a", "b">>, <<"c", "a">>, <<"a_b", "c">>, <<"a", "b_c">> }
TripleKeys ==
    { <<"a", "b", "c">>, <<"c", "c", "a">>, <<"a_b", "c", "a">>,
      <<"a", "b_c", "a">> }

Constructed(kind, prefix, first, second, overflow_checks, addresser) ==
    [ kind |-> kind, prefix |-> prefix, first |-> first, second |-> second,
      overflow_checks |-> overflow_checks, addresser |-> addresser,
      op |-> "new", keys |-> <<>>,
      ret |-> IF addresser = Panic THEN Panic ELSE Ok(<<>>) ]

Computed(keys, ret) ==
    [ last EXCEPT !.op = "compute", !.keys = keys, !.ret = ret ]

\* normalize returns a String, not a Result
Normalized(keys, ret) ==
    [ last EXCEPT !.op = "normalize", !.keys = keys, !.ret = ret ]

InitAddresser ==
    /\ state = <<>>
    /\ \E prefix \in Prefixes, overflow_checks \in BOOLEAN :
         \/ last = Constructed("KeyHashAddresser", prefix, None, None,
                               overflow_checks, KeyHashAddresser_new(prefix))
         \/ \E first \in HashLengths :
              last = Constructed("DoubleKeyHashAddresser", prefix, first, None,
                         overflow_checks,
                         DoubleKeyHashAddresser_new(prefix, first,
                                                    overflow_checks))
         \/ \E first \in HashLengths, second \in HashLengths :
              last = Constructed("TripleKeyHashAddresser", prefix, first, second,
                         overflow_checks,
                         TripleKeyHashAddresser_new(prefix, first, second,
                                                    overflow_checks))

KeyHashCompute ==
    /\ last.kind = "KeyHashAddresser"
    /\ last.addresser # Panic
    /\ \E keys \in SingleKeys :
         last' = Computed(keys, KeyHash_compute(last.addresser, keys,
                                                last.overflow_checks))
    /\ UNCHANGED state

DoubleKeyCompute ==
    /\ last.kind = "DoubleKeyHashAddresser"
    /\ last.addresser # Panic
    /\ \E keys \in DoubleKeys :
         last' = Computed(keys, DoubleKey_compute(last.addresser, keys,
                                                  last.overflow_checks))
    /\ UNCHANGED state

TripleKeyCompute ==
    /\ last.kind = "TripleKeyHashAddresser"
    /\ last.addresser # Panic
    /\ \E keys \in TripleKeys :
         last' = Computed(keys, TripleKey_compute(last.addresser, keys,
                                                  last.overflow_checks))
    /\ UNCHANGED state

KeyHashNormalize ==
    /\ last.kind = "KeyHashAddresser"
    /\ last.addresser # Panic
    /\ \E key \in SingleKeys :
         last' = Normalized(key, KeyHash_normalize(last.addresser, key))
    /\ UNCHANGED state

DoubleKeyNormalize ==
    /\ last.kind = "DoubleKeyHashAddresser"
    /\ last.addresser # Panic
    /\ \E keys \in DoubleKeys :
         last' = Normalized(keys, DoubleKey_normalize(last.addresser, keys))
    /\ UNCHANGED state

TripleKeyNormalize ==
    /\ last.kind = "TripleKeyHashAddresser"
    /\ last.addresser # Panic
    /\ \E keys \in TripleKeys :
         last' = Normalized(keys, TripleKey_normalize(last.addresser, keys))
    /\ UNCHANGED state

NextAddresser ==
    \/ KeyHashCompute
    \/ DoubleKeyCompute
    \/ TripleKeyCompute
    \/ KeyHashNormalize
    \/ DoubleKeyNormalize
    \/ TripleKeyNormalize

SpecAddresser == InitAddresser /\ [][NextAddresser]_vars

(***************************************************************************)
(* cli: the helpers of submit.rs and state.rs that talk to the REST API.   *)
(* Url is reqwest's re-export of the url crate; Url_parse follows that     *)
(* crate for the inputs of the model: the scheme is what precedes the      *)
(* first ":", it starts with a letter, and it is stored in lower case.     *)
(***************************************************************************)
UpperCase == "ABCDEFGHIJKLMNOPQRSTUVWXYZ"
LowerCase == "abcdefghijklmnopqrstuvwxyz"
Digits == "0123456789"

\* the character c occurs in the string s
OccursIn(c, s) == \E i \in 1..Len(s) : SubSeq(s, i, i) = c

to_ascii_lowercase(c) ==
    IF OccursIn(c, UpperCase)
    THEN LET i == CHOOSE j \in 1..Len(UpperCase) : SubSeq(UpperCase, j, j) = c
         IN  SubSeq(LowerCase, i, i)
    ELSE c

RECURSIVE to_lowercase(_)
to_lowercase(s) ==
    IF s = "" THEN ""
    ELSE to_ascii_lowercase(SubSeq(s, 1, 1)) \o to_lowercase(SubSeq(s, 2, Len(s)))

\* the schemes whose URLs must name a host
SpecialSchemes == { "http", "https", "ws", "wss", "ftp" }

\* s without the slashes it starts with
RECURSIVE skip_slashes(_)
skip_slashes(s) ==
    IF s # "" /\ SubSeq(s, 1, 1) \in { "/", "\\" }
    THEN skip_slashes(SubSeq(s, 2, Len(s)))
    ELSE s

\* Url::parse
Url_parse(input) ==
    IF ~OccursIn(":", input) THEN Err("RelativeUrlWithoutBase")
    ELSE LET colon == CHOOSE i \in 1..Len(input) :
                          /\ SubSeq(input, i, i) = ":"
                          /\ \A j \in 1..(i - 1) : SubSeq(input, j, j) # ":"
             scheme == SubSeq(input, 1, colon - 1)
             rest == SubSeq(input, colon + 1, Len(input))
             is_scheme ==
                 /\ scheme # ""
                 /\ OccursIn(SubSeq(scheme, 1, 1), UpperCase \o LowerCase)
                 /\ \A j \in 1..Len(scheme) :
                        OccursIn(SubSeq(scheme, j, j),
                                 UpperCase \o LowerCase \o Digits \o "+-.")
             after == skip_slashes(rest)
         IN  IF ~is_scheme THEN Err("RelativeUrlWithoutBase")
             ELSE IF /\ to_lowercase(scheme) \in SpecialSchemes
                     /\ (after = "" \/ SubSeq(after, 1, 1) \in { "?", "#" })
             THEN Err("EmptyHost")
             ELSE Ok([ scheme |-> to_lowercase(scheme), rest |-> rest ])

\* the ways a call can fail after the URL was accepted: the batches cannot
\* be serialized, the request fails, the body of the response is not the
\* JSON expected
CliFaults == { "none", "into_bytes", "send", "json" }

\* submit_batches that lets URLs of the scheme https through
submit_batches_https(url, batch_list, fault, response) ==
    LET parsed == Url_parse(url \o "/batches")
        request == [ method |-> "POST", url |-> parsed.val, body |-> batch_list ]
    IN  IF parsed.tag = "Err" THEN [ ret |-> Err("User"), sent |-> <<>> ]
        ELSE IF parsed.val.scheme \notin { "http", "https" }
        THEN [ ret |-> Err("User"), sent |-> <<>> ]
        ELSE IF fault = "into_bytes"
        THEN [ ret |-> Err("ProtoConversion"), sent |-> <<>> ]
        ELSE IF fault \in { "send", "json" }
        THEN [ ret |-> Err("Reqwest"), sent |-> <<request>> ]
        ELSE [ ret |-> Ok(response), sent |-> <<request>> ]

\* submit_batches: the outcome and the requests sent.  response is the link
\* of the body the REST API answers with.
submit_batches(url, batch_list, fault, response) ==
    LET parsed == Url_parse(url \o "/batches")
        request == [ method |-> "POST", url |-> parsed.val, body |-> batch_list ]
    IN  IF parsed.tag = "Err" THEN [ ret |-> Err("User"), sent |-> <<>> ]
        ELSE IF parsed.val.scheme # "http"
        THEN [ ret |-> Err("User"), sent |-> <<>> ]
        ELSE IF fault = "into_bytes"
        THEN [ ret |-> Err("ProtoConversion"), sent |-> <<>> ]
        ELSE IF fault \in { "send", "json" }
        THEN [ ret |-> Err("Reqwest"), sent |-> <<request>> ]
        ELSE [ ret |-> Ok(response), sent |-> <<request>> ]

\* wait_for_batch: response is the StatusResponse of the body
wait_for_batch(url, wait, fault, response) ==
    LET parsed == Url_parse(url \o "&wait=" \o wait)
        request == [ method |-> "GET", url |-> parsed.val, body |-> <<>> ]
    IN  IF parsed.tag = "Err" THEN [ ret |-> Err("User"), sent |-> <<>> ]
        ELSE IF parsed.val.scheme # "http"
        THEN [ ret |-> Err("User"), sent |-> <<>> ]
        ELSE IF fault \in { "send", "json" }
        THEN [ ret |-> Err("Reqwest"), sent |-> <<request>> ]
        ELSE [ ret |-> Ok(response), sent |-> <<request>> ]

\* StatusResponse::is_finished that waits for every batch to be decided
is_finished_all_decided(self) ==
    \A i \in 1..Len(self.data) :
        self.data[i].status \in { "COMMITTED", "INVALID" }

\* StatusResponse::is_finished
is_finished(self) ==
    \/ \A i \in 1..Len(self.data) : self.data[i].status = "COMMITTED"
    \/ \E i \in 1..Len(self.data) : self.data[i].status = "INVALID"

\* get_state_with_prefix: response is the data of the body
get_state_with_prefix(url, prefix, fault, response) ==
    LET parsed == Url_parse(url \o "/state?address=" \o prefix)
        request == [ method |-> "GET", url |-> parsed.val, body |-> <<>> ]
    IN  IF parsed.tag = "Err" THEN [ ret |-> Err("User"), sent |-> <<>> ]
        ELSE IF parsed.val.scheme # "http"
        THEN [ ret |-> Err("User"), sent |-> <<>> ]
        ELSE IF fault \in { "send", "json" }
        THEN [ ret |-> Err("Reqwest"), sent |-> <<request>> ]
        ELSE [ ret |-> Ok(response), sent |-> <<request>> ]

(***************************************************************************)
(* The state machine of the command line client: state is the list of the  *)
(* requests sent to the REST API so far, last the call made last with its  *)
(* outcome and the requests it sent.                                       *)
(***************************************************************************)
\* the URLs handed in: those of the tests, one without a scheme, the empty
\* string, one in upper case and two of other schemes
Urls ==
    { "http://127.0.0.1:1234", "https://test.com", "file://test", "test.com",
      "", "HTTP://test.com", "ftp://test.com", "httpx://test.com", "http://" }

BatchLists == { <<"batch1">>, <<"batch1", "batch2">> }
Links == { "test.com/success" }
StateEntries == { <<>>, <<[address |-> "abc", data |-> "def"]>> }
\* the statuses the REST API reports for a batch
Statuses == { "COMMITTED", "INVALID", "PENDING" }

\* the bodies wait_for_batch parses: the statuses of up to two batches
StatusResponses ==
    { [data |-> data, link |-> "test.com/success"] :
        data \in UNION { [1..n -> [ id : { "batch1" }, status : Statuses,
                                    invalid_transactions : { <<>> } ]] :
                         n \in 0..2 } }

\* the body wait_for_batch is answered with: no batch in data
PolledResponses == { r \in StatusResponses : r.data = <<>> }

CliCall(op, url, res) ==
    [ op |-> op, url |-> url, ret |-> res.ret, sent |-> res.sent ]

InitCli ==
    /\ state = <<>>
    /\ last = [ op |-> "main", url |-> "", ret |-> Ok(<<>>), sent |-> <<>> ]

\* the call returns and what it sent is on the network; the model follows
\* the client for as long as the list of requests is within its bound
CliReturns(op, url, res) ==
    /\ Len(state) + Len(res.sent) <= MaxRequests
    /\ state' = state \o res.sent
    /\ last' = CliCall(op, url, res)

\* the outcomes of the calls of the model, computed once
SubmitBatchesOf ==
    [ url \in Urls, batch_list \in BatchLists, fault \in CliFaults,
      response \in Links |->
        submit_batches(url, batch_list, fault, response) ]

WaitForBatchOf ==
    [ url \in Urls, wait \in { "30" }, fault \in CliFaults,
      response \in PolledResponses |->
        wait_for_batch(url, wait, fault, response) ]

GetStateWithPrefixOf ==
    [ url \in Urls, prefix \in { "test", "" }, fault \in CliFaults,
      response \in StateEntries |->
        get_state_with_prefix(url, prefix, fault, response) ]

SubmitBatches ==
    \E url \in Urls, batch_list \in BatchLists, fault \in CliFaults,
       response \in Links :
        /\ Len(state) <= MaxRequests
        /\ CliReturns("submit_batches", url,
                      SubmitBatchesOf[url, batch_list, fault, response])

WaitForBatch ==
    \E url \in Urls, wait \in { "30" }, fault \in CliFaults \ { "into_bytes" },
       response \in PolledResponses :
        /\ Len(state) <= MaxRequests
        /\ CliReturns("wait_for_batch", url,
                      WaitForBatchOf[url, wait, fault, response])

GetStateWithPrefix ==
    \E url \in Urls, prefix \in { "test", "" },
       fault \in CliFaults \ { "into_bytes" }, response \in StateEntries :
        /\ Len(state) <= MaxRequests
        /\ CliReturns("get_state_with_prefix", url,
                      GetStateWithPrefixOf[url, prefix, fault, response])

\* is_finished is called on a StatusResponse
IsFinished ==
    \E self \in StatusResponses :
        /\ Len(state) <= MaxRequests
        /\ last' = [ op |-> "is_finished", url |-> "", self |-> self,
                     ret |-> is_finished(self), sent |-> <<>> ]
        /\ UNCHANGED state

NextCli ==
    \/ SubmitBatches
    \/ WaitForBatch
    \/ GetStateWithPrefix
    \/ IsFinished

SpecCli == InitCli /\ [][NextCli]_vars

(***************************************************************************)
(* handler.rs of the intkey_multiply example.  A u32 is kept as its eight  *)
(* hexadecimal digits, most significant first, and a u64 as sixteen: the   *)
(* values reach 4294967295.  A Vec<u8> is kept as the upper-case           *)
(* hexadecimal string of its bytes.  Names are made of lower-case letters. *)
(***************************************************************************)
HexUpper == "0123456789ABCDEF"

\* the u32 of a number below 2^31
u32(n) == [ i \in 1..8 |-> (n \div (16 ^ (8 - i))) % 16 ]

MAX_VALUE == [ i \in 1..8 |-> 15 ]
MAX_NAME_LEN == 20

\* a u32 that fits into a byte, as a number; 256 for everything larger
small(v) ==
    IF \E i \in 1..(Len(v) - 2) : v[i] # 0 THEN 256
    ELSE 16 * v[Len(v) - 1] + v[Len(v)]

\* format!("{:X}") and format!("{:02X}"): the digits without leading zeros,
\* at least width of them
RECURSIVE format_X(_, _)
format_X(v, width) ==
    IF v = <<>> THEN ""
    ELSE IF Len(v) > width /\ Head(v) = 0 THEN format_X(Tail(v), width)
    ELSE SubSeq(HexUpper, Head(v) + 1, Head(v) + 1) \o format_X(Tail(v), Len(v))

\* u32::from_str_radix(s, 16) and usize::from_str_radix(s, 16), for the
\* strings of at most eight characters decode_intkey hands in
from_str_radix(s) ==
    IF s = "" \/ \E i \in 1..Len(s) : ~OccursIn(SubSeq(s, i, i), HexUpper)
    THEN Err("ParseIntError")
    ELSE Ok([ i \in 1..8 |->
                IF i <= 8 - Len(s) THEN 0
                ELSE (CHOOSE n \in 0..15 :
                        SubSeq(HexUpper, n + 1, n + 1)
                            = SubSeq(s, i - (8 - Len(s)), i - (8 - Len(s)))) ])

\* the byte of a lower-case letter
byte_of(c) == 96 + (CHOOSE i \in 1..26 : SubSeq(LowerCase, i, i) = c)

\* hex::encode_upper of a name
RECURSIVE encode_upper(_)
encode_upper(key) ==
    IF key = "" THEN ""
    ELSE format_X(u32(byte_of(SubSeq(key, 1, 1))), 2)
           \o encode_upper(SubSeq(key, 2, Len(key)))

\* hex::decode followed by String::from_utf8, for the hexadecimal string of
\* a name; a byte that is no lower-case letter is outside the names of the
\* model and is reported as the error of from_utf8
RECURSIVE name_of_hex(_)
name_of_hex(name_hex) ==
    LET joined(byte, rest) ==
            IF small(byte) \notin 97..122 THEN Err("FromUtf8Error")
            ELSE IF rest.tag = "Err" THEN rest
            ELSE Ok(SubSeq(LowerCase, small(byte) - 96, small(byte) - 96)
                      \o rest.val)
        decoded(byte) ==
            IF byte.tag = "Err" THEN Err("FromHexError")
            ELSE joined(byte.val, name_of_hex(SubSeq(name_hex, 3, Len(name_hex))))
    IN  IF name_hex = "" THEN Ok("")
        ELSE decoded(from_str_radix(SubSeq(name_hex, 1, 2)))

\* ApplyError::InvalidTransaction with its message
InvalidTransaction(msg) == Err([ kind |-> "InvalidTransaction", msg |-> msg ])

\* the body of the loop of decode_intkey, for the entries that are left:
\* start counts the characters read so far
RECURSIVE decode_entries(_, _, _, _)
decode_entries(hex_string, entries, start, output) ==
    LET get(from, to) ==
            IF to <= Len(hex_string) THEN Some(SubSeq(hex_string, from + 1, to))
            ELSE None
        inserted(name, int_value, next) ==
            IF int_value.tag = "Err"
            THEN InvalidTransaction("Unable to decode cbor")
            ELSE decode_entries(hex_string, entries - 1, next,
                     [ n \in DOMAIN output \cup { name } |->
                         IF n = name THEN int_value.val ELSE output[n] ])
        valued(name, next, value) ==
            IF ~value.some THEN InvalidTransaction("Unable to get number data")
            ELSE inserted(name, from_str_radix(value.val), next)
        numbered(name, at, number_type, number) ==
            IF number.tag = "Err"
            THEN InvalidTransaction("Unable to decode cbor")
            ELSE IF small(number.val) <= 23
            THEN inserted(name, from_str_radix(number_type), at + 2)
            ELSE IF small(number.val) - 23 = 1
            THEN valued(name, at + 4, get(at + 2, at + 4))
            ELSE IF small(number.val) - 23 = 2
            THEN valued(name, at + 6, get(at + 2, at + 6))
            ELSE IF small(number.val) - 23 = 3
            THEN valued(name, at + 10, get(at + 2, at + 10))
            ELSE InvalidTransaction("Value is too large")
        typed(name, at, number_type) ==
            IF ~number_type.some
            THEN InvalidTransaction("Unable to get hex for Value data")
            ELSE numbered(name, at, number_type.val,
                          from_str_radix(number_type.val))
        named(name, at) ==
            IF name.tag = "Err" THEN InvalidTransaction("Unable to decode cbor")
            ELSE typed(name.val, at, get(at, at + 2))
        sized(length, name_hex) ==
            IF ~name_hex.some THEN InvalidTransaction("Unable to hex for the Name")
            ELSE named(name_of_hex(name_hex.val), start + 2 + length)
        string_typed(string_type) ==
            IF string_type.tag = "Err"
            THEN InvalidTransaction("Unable to decode cbor")
            ELSE IF small(string_type.val) \notin 97..116
            THEN InvalidTransaction(
                     "Name is either too long, too short, or not a string.")
            ELSE sized((small(string_type.val) - 96) * 2,
                       get(start + 2,
                           start + 2 + (small(string_type.val) - 96) * 2))
        entry(string_hex) ==
            IF ~string_hex.some
            THEN InvalidTransaction("Unable to hex for the string data")
            ELSE string_typed(from_str_radix(string_hex.val))
    IN  IF entries = 0 THEN Ok(output)
        ELSE entry(get(start, start + 2))

\* fn decode_intkey: the map of a CBOR map in hexadecimal
decode_intkey(hex_string) ==
    LET counted(entries) ==
            IF entries.tag = "Err"
            THEN InvalidTransaction("Unable to decode cbor")
            ELSE decode_entries(hex_string, small(entries.val), 2, << >>)
    IN  IF Len(hex_string) < 1
        THEN InvalidTransaction("Unable to get data type")
        ELSE IF SubSeq(hex_string, 1, 1) # "A"
        THEN InvalidTransaction("Cbor is not a map.")
        ELSE IF Len(hex_string) < 2
        THEN InvalidTransaction("Unable to get number of entries in the map")
        ELSE counted(from_str_radix(SubSeq(hex_string, 2, 2)))

\* the order of String: byte by byte, a prefix before its extensions
RECURSIVE str_lt(_, _)
str_lt(a, b) ==
    IF b = "" THEN FALSE
    ELSE IF a = "" THEN TRUE
    ELSE \/ byte_of(SubSeq(a, 1, 1)) < byte_of(SubSeq(b, 1, 1))
         \/ /\ SubSeq(a, 1, 1) = SubSeq(b, 1, 1)
            /\ str_lt(SubSeq(a, 2, Len(a)), SubSeq(b, 2, Len(b)))

\* BTreeMap::keys: the keys in ascending order
RECURSIVE keys_of(_)
keys_of(names) ==
    LET from(first) == <<first>> \o keys_of(names \ { first })
    IN  IF names = {} THEN <<>>
        ELSE from(CHOOSE n \in names : \A m \in names \ { n } : str_lt(n, m))

\* what encode_intkey appends for one key
encode_entry(key, raw_value) ==
    LET marked(start, value) ==
            CASE Len(value) = 2 -> Ok(start \o "18" \o value)
              [] Len(value) = 4 -> Ok(start \o "19" \o value)
              [] Len(value) = 8 -> Ok(start \o "1A" \o value)
              [] OTHER -> InvalidTransaction("Value is too large")
        padded(start, value) ==
            marked(start, IF Len(value) % 2 = 1 THEN "0" \o value ELSE value)
        valued(start) ==
            IF small(raw_value) > 23 THEN padded(start, format_X(raw_value, 2))
            ELSE Ok(start \o format_X(raw_value, 2))
    IN  IF Len(key) \notin 1..20
        THEN InvalidTransaction(
                 "Key must be at least 1 character and no more than 20")
        ELSE valued(format_X(u32(96 + Len(key)), 1) \o encode_upper(key))

\* the loop of encode_intkey over the keys that are left
RECURSIVE encode_entries(_, _, _)
encode_entries(map, keys, hex_string) ==
    LET appended(entry) ==
            IF entry.tag = "Err" THEN entry
            ELSE encode_entries(map, Tail(keys), hex_string \o entry.val)
    IN  IF keys = <<>> THEN Ok(hex_string)
        ELSE appended(encode_entry(Head(keys), map[Head(keys)]))

\* fn encode_intkey: the CBOR map, in hexadecimal, of a map
encode_intkey(map) ==
    encode_entries(map, keys_of(DOMAIN map),
                   "A" \o format_X(u32(Cardinality(DOMAIN map)), 1))

\* fn get_intkey_prefix
get_intkey_prefix == SubSeq(Sha512Hex("intkey"), 1, 6)

\* IntkeyState::calculate_address
calculate_address(name) ==
    get_intkey_prefix \o SubSeq(Sha512Hex(name), 65, 128)

\* the bytes of a hexadecimal string (hex::decode)
RECURSIVE hex_decode(_)
hex_decode(s) ==
    IF s = "" THEN <<>>
    ELSE <<small(from_str_radix(SubSeq(s, 1, 2)).val)>>
           \o hex_decode(SubSeq(s, 3, Len(s)))

\* the bytes, each formatted with {:02X}, joined
RECURSIVE hex_join(_)
hex_join(packed) ==
    IF packed = <<>> THEN ""
    ELSE format_X(u32(Head(packed)), 2) \o hex_join(Tail(packed))

\* IntkeyState::new
IntkeyState_new == [ get_cache |-> << >> ]

\* IntkeyState::get: the outcome and the IntkeyState after the call; context
\* is the store behind the TransactionContext, whose calls succeed
IntkeyState_get(self, context, name) ==
    LET unpacked(address, map) ==
            IF map.tag = "Err" THEN [ ret |-> map, self |-> self ]
            ELSE [ ret |-> Ok(IF name \in DOMAIN map.val
                              THEN Some(map.val[name]) ELSE None),
                   self |-> [ get_cache |->
                       [ a \in DOMAIN self.get_cache \cup { address } |->
                           IF a = address THEN map.val
                           ELSE self.get_cache[a] ] ] ]
        fetched(address, d) ==
            IF ~d.some THEN [ ret |-> Ok(None), self |-> self ]
            ELSE unpacked(address, decode_intkey(hex_join(d.val)))
        at(address) == fetched(address, context[address])
    IN  at(calculate_address(name))

\* IntkeyState::set: the outcome and the store after the call
IntkeyState_set(self, context, name, value) ==
    LET written(address, encoded) ==
            IF encoded.tag = "Err" THEN [ ret |-> encoded, context |-> context ]
            ELSE IF Len(encoded.val) % 2 = 1
            THEN [ ret |-> InvalidTransaction("Odd number of digits"),
                   context |-> context ]
            ELSE [ ret |-> Ok(<<>>),
                   context |->
                       [ context EXCEPT
                           ![address] = Some(hex_decode(encoded.val)) ] ]
        inserted(address, map) ==
            written(address,
                    encode_intkey([ n \in DOMAIN map \cup { name } |->
                                      IF n = name THEN value ELSE map[n] ]))
        at(address) ==
            inserted(address,
                     IF address \in DOMAIN self.get_cache
                     THEN self.get_cache[address] ELSE << >>)
    IN  at(calculate_address(name))

\* str::split(','): the parts of the payload between the commas
RECURSIVE split(_)
split(payload) ==
    LET cut(i) ==
            <<SubSeq(payload, 1, i - 1)>>
              \o split(SubSeq(payload, i + 1, Len(payload)))
    IN  IF ~OccursIn(",", payload) THEN <<payload>>
        ELSE cut(CHOOSE i \in 1..Len(payload) :
                     /\ SubSeq(payload, i, i) = ","
                     /\ ~OccursIn(",", SubSeq(payload, 1, i - 1)))

\* IntkeyPayload::new, for a payload that is UTF-8
IntkeyPayload_new(payload) ==
    LET checked(payload_vec) ==
            IF Len(payload_vec[1]) > MAX_NAME_LEN
            THEN InvalidTransaction(
                     "Name A must be equal to or less than 20 characters")
            ELSE IF Len(payload_vec) < 2
            THEN InvalidTransaction("Name B must be a string")
            ELSE IF Len(payload_vec[2]) > MAX_NAME_LEN
            THEN InvalidTransaction(
                     "Name B must be equal to or less than 20 characters")
            ELSE IF Len(payload_vec) < 3
            THEN InvalidTransaction("Name C must be a string")
            ELSE IF Len(payload_vec[3]) > MAX_NAME_LEN
            THEN InvalidTransaction(
                     "Name C must be equal to or less than 20 characters")
            ELSE Ok(Some([ name_a |-> payload_vec[1],
                           name_b |-> payload_vec[2],
                           name_c |-> payload_vec[3] ]))
    IN  checked(split(payload))

\* u64::from of a u32
u64_from(v) == [ i \in 1..16 |-> IF i <= 8 THEN 0 ELSE v[i - 8] ]

\* the digit of weight 16^k of a * b before the carry: the sum of the
\* products of the digits of a and b whose weights multiply to 16^k
RECURSIVE column(_, _, _, _)
column(a, b, k, i) ==
    IF i > k THEN 0
    ELSE a[16 - i] * b[16 - (k - i)] + column(a, b, k, i + 1)

\* the digits of a * b from weight 16^k upwards
RECURSIVE mul_from(_, _, _, _)
mul_from(a, b, k, carry) ==
    LET digits(sum) == mul_from(a, b, k + 1, sum \div 16) \o <<sum % 16>>
    IN  IF k = 16 THEN <<>>
        ELSE digits(carry + column(a, b, k, 0))

\* a * b on u64, for factors that came from u32: the product fits
u64_mul(a, b) == mul_from(a, b, 0, 0)

\* a > b, for two numbers of the same width
gt(a, b) ==
    \E i \in 1..Len(a) : a[i] > b[i] /\ \A j \in 1..(i - 1) : a[j] = b[j]

\* apply that multiplies into a name whether or not it has a value
apply_overwriting(payload, context) ==
    LET failed(err) ==
            [ ret |-> err, context |-> context, writes |-> <<>>,
              events |-> <<>> ]
        stored(address, values, set) ==
            IF set.ret.tag = "Err" THEN failed(set.ret)
            ELSE [ ret |-> Ok(<<>>), context |-> set.context,
                   writes |-> <<[ address |-> address,
                                  data |-> set.context[address].val ]>>,
                   events |-> <<[ event_type |-> "computation",
                                  attributes |-> <<>>, data |-> values ]>> ]
        multiplied(names, self, orig_value_b, orig_value_c, new_value) ==
            IF gt(new_value, u64_from(MAX_VALUE))
            THEN failed(InvalidTransaction(
                            "Multiplied value is larger then max allowed"))
            ELSE stored(calculate_address(names.name_a),
                        <<orig_value_b, orig_value_c, new_value>>,
                        IntkeyState_set(self, context, names.name_a,
                                        SubSeq(new_value, 9, 16)))
        got_c(names, orig_value_b, got) ==
            IF got.ret.tag = "Err" THEN failed(got.ret)
            ELSE IF ~got.ret.val.some
            THEN failed(InvalidTransaction(
                            "Multiply requires a set value for name_c"))
            ELSE multiplied(names, got.self, orig_value_b,
                            u64_from(got.ret.val.val),
                            u64_mul(orig_value_b, u64_from(got.ret.val.val)))
        got_b(names, got) ==
            IF got.ret.tag = "Err" THEN failed(got.ret)
            ELSE IF ~got.ret.val.some
            THEN failed(InvalidTransaction(
                            "Multiply requires a set value for name_b"))
            ELSE got_c(names, u64_from(got.ret.val.val),
                       IntkeyState_get(got.self, context, names.name_c))
        got_a(names, got) ==
            IF got.ret.tag = "Err" THEN failed(got.ret)
            ELSE IF FALSE
            THEN failed(InvalidTransaction(names.name_a \o " is already set"))
            ELSE got_b(names, IntkeyState_get(got.self, context, names.name_b))
        parsed(payload_) ==
            IF payload_.tag = "Err" THEN failed(payload_)
            ELSE got_a(payload_.val.val,
                       IntkeyState_get(IntkeyState_new, context,
                                       payload_.val.val.name_a))
    IN  parsed(IntkeyPayload_new(payload))

\* apply that forms the product in 32 bits, wrapping around
apply_wrapping(payload, context) ==
    LET failed(err) ==
            [ ret |-> err, context |-> context, writes |-> <<>>,
              events |-> <<>> ]
        stored(address, values, set) ==
            IF set.ret.tag = "Err" THEN failed(set.ret)
            ELSE [ ret |-> Ok(<<>>), context |-> set.context,
                   writes |-> <<[ address |-> address,
                                  data |-> set.context[address].val ]>>,
                   events |-> <<[ event_type |-> "computation",
                                  attributes |-> <<>>, data |-> values ]>> ]
        multiplied(names, self, orig_value_b, orig_value_c, new_value) ==
            IF gt(new_value, u64_from(MAX_VALUE))
            THEN failed(InvalidTransaction(
                            "Multiplied value is larger then max allowed"))
            ELSE stored(calculate_address(names.name_a),
                        <<orig_value_b, orig_value_c, new_value>>,
                        IntkeyState_set(self, context, names.name_a,
                                        SubSeq(new_value, 9, 16)))
        got_c(names, orig_value_b, got) ==
            IF got.ret.tag = "Err" THEN failed(got.ret)
            ELSE IF ~got.ret.val.some
            THEN failed(InvalidTransaction(
                            "Multiply requires a set value for name_c"))
            ELSE multiplied(names, got.self, orig_value_b,
                            u64_from(got.ret.val.val),
                            u64_from(SubSeq(u64_mul(orig_value_b,
                                    u64_from(got.ret.val.val)), 9, 16)))
        got_b(names, got) ==
            IF got.ret.tag = "Err" THEN failed(got.ret)
            ELSE IF ~got.ret.val.some
            THEN failed(InvalidTransaction(
                            "Multiply requires a set value for name_b"))
            ELSE got_c(names, u64_from(got.ret.val.val),
                       IntkeyState_get(got.self, context, names.name_c))
        got_a(names, got) ==
            IF got.ret.tag = "Err" THEN failed(got.ret)
            ELSE IF got.ret.val.some
            THEN failed(InvalidTransaction(names.name_a \o " is already set"))
            ELSE got_b(names, IntkeyState_get(got.self, context, names.name_b))
        parsed(payload_) ==
            IF payload_.tag = "Err" THEN failed(payload_)
            ELSE got_a(payload_.val.val,
                       IntkeyState_get(IntkeyState_new, context,
                                       payload_.val.val.name_a))
    IN  parsed(IntkeyPayload_new(payload))

\* <IntkeyMultiplyTransactionHandler as TransactionHandler>::apply: the
\* outcome, the store after the call, and the writes and events issued.  The
\* message of the product that is too large is kept without the number, and
\* the data of the event as the three numbers it is formatted from.
apply(payload, context) ==
    LET failed(err) ==
            [ ret |-> err, context |-> context, writes |-> <<>>,
              events |-> <<>> ]
        stored(address, values, set) ==
            IF set.ret.tag = "Err" THEN failed(set.ret)
            ELSE [ ret |-> Ok(<<>>), context |-> set.context,
                   writes |-> <<[ address |-> address,
                                  data |-> set.context[address].val ]>>,
                   events |-> <<[ event_type |-> "computation",
                                  attributes |-> <<>>, data |-> values ]>> ]
        multiplied(names, self, orig_value_b, orig_value_c, new_value) ==
            IF gt(new_value, u64_from(MAX_VALUE))
            THEN failed(InvalidTransaction(
                            "Multiplied value is larger then max allowed"))
            ELSE stored(calculate_address(names.name_a),
                        <<orig_value_b, orig_value_c, new_value>>,
                        IntkeyState_set(self, context, names.name_a,
                                        SubSeq(new_value, 9, 16)))
        got_c(names, orig_value_b, got) ==
            IF got.ret.tag = "Err" THEN failed(got.ret)
            ELSE IF ~got.ret.val.some
            THEN failed(InvalidTransaction(
                            "Multiply requires a set value for name_c"))
            ELSE multiplied(names, got.self, orig_value_b,
                            u64_from(got.ret.val.val),
                            u64_mul(orig_value_b, u64_from(got.ret.val.val)))
        got_b(names, got) ==
            IF got.ret.tag = "Err" THEN failed(got.ret)
            ELSE IF ~got.ret.val.some
            THEN failed(InvalidTransaction(
                            "Multiply requires a set value for name_b"))
            ELSE got_c(names, u64_from(got.ret.val.val),
                       IntkeyState_get(got.self, context, names.name_c))
        got_a(names, got) ==
            IF got.ret.tag = "Err" THEN failed(got.ret)
            ELSE IF got.ret.val.some
            THEN failed(InvalidTransaction(names.name_a \o " is already set"))
            ELSE got_b(names, IntkeyState_get(got.self, context, names.name_b))
        parsed(payload_) ==
            IF payload_.tag = "Err" THEN failed(payload_)
            ELSE got_a(payload_.val.val,
                       IntkeyState_get(IntkeyState_new, context,
                                       payload_.val.val.name_a))
    IN  parsed(IntkeyPayload_new(payload))

(***************************************************************************)
(* The state machine of the intkey_multiply handler: state is the store    *)
(* behind the TransactionContext, an Option<Vec<u8>> for every address of  *)
(* the model; last is the call made last, with its outcome, the writes and *)
(* events it issued, and the IntkeyState that get and set are called on.   *)
(***************************************************************************)
IntkeyNames == { "a", "b", "c" }

\* what the store holds at the address of a name when the handler starts,
\* as a CBOR encoder writes it: nothing, the name with a value, and at the
\* address of "a" another name or bytes that are no map
EntriesAt(name) ==
    CASE name = "a" -> { "", "A1616103", "A1616207", "00" }
      [] name = "b" -> { "", "A1616203", "A1616219FFFF", "A161621A00010000",
                         "A16162190100" }
      [] name = "c" -> { "", "A1616305", "A161631A00010001",
                         "A161631A00010000", "A16163190100" }

Payloads ==
    { "a,b,c", "a,b,b", "b,a,c", "a,b", "", "abcdefghijklmnopqrstu,b,c" }

\* the name and the values IntkeyState::get and IntkeyState::set are called
\* with outside apply
StateNames == { "a" }
SetValues == { u32(24), u32(65536) }

IntkeyCall(op, arg, ret, self, writes, events) ==
    [ op |-> op, arg |-> arg, ret |-> ret, self |-> self, writes |-> writes,
      events |-> events ]

InitIntkey ==
    /\ \E hex \in [ IntkeyNames -> UNION { EntriesAt(n) : n \in IntkeyNames } ] :
         /\ \A n \in IntkeyNames : hex[n] \in EntriesAt(n)
         /\ state = [ address \in { calculate_address(n) : n \in IntkeyNames } |->
                        LET n == CHOOSE n \in IntkeyNames :
                                     calculate_address(n) = address
                        IN  IF hex[n] = "" THEN None
                            ELSE Some(hex_decode(hex[n])) ]
    /\ last = IntkeyCall("new", <<>>, Ok(<<>>), IntkeyState_new, <<>>, <<>>)

\* the call returns: what it did to the store and what is known of it
Applied(payload, applied) ==
    /\ state' = applied.context
    /\ last' = IntkeyCall("apply", payload, applied.ret, IntkeyState_new,
                          applied.writes, applied.events)

Got(name, got) ==
    /\ last' = IntkeyCall("get", <<name>>, got.ret, got.self, <<>>, <<>>)
    /\ UNCHANGED state

Set(name, value, stored) ==
    /\ state' = stored.context
    /\ last' = IntkeyCall("set", <<name, value>>, stored.ret, last.self,
                          IF stored.ret.tag = "Ok"
                          THEN <<calculate_address(name)>> ELSE <<>>, <<>>)

\* a transaction is applied; the IntkeyState of the call ends with it
Apply ==
    \E payload \in Payloads :
        /\ last.op \in { "new", "apply", "get", "set" }
        /\ Applied(payload, apply(payload, state))

\* IntkeyState::new: a new IntkeyState on the context
IntkeyStateNew ==
    /\ last.op # "new"
    /\ last' = IntkeyCall("new", <<>>, Ok(<<>>), IntkeyState_new, <<>>, <<>>)
    /\ UNCHANGED state

IntkeyStateGet ==
    \E name \in StateNames :
        /\ last.op \in { "new", "get", "set" }
        /\ Got(name, IntkeyState_get(last.self, state, name))

IntkeyStateSet ==
    \E name \in StateNames, value \in SetValues :
        /\ last.op \in { "new", "get", "set" }
        /\ Set(name, value, IntkeyState_set(last.self, state, name, value))

NextIntkey ==
    \/ Apply
    \/ IntkeyStateNew
    \/ IntkeyStateGet
    \/ IntkeyStateSet

SpecIntkey == InitIntkey /\ [][NextIntkey]_vars

(***************************************************************************)
(* The state machine of the codec: a map is drawn, encode_intkey is called *)
(* on it and decode_intkey on the string it returned.  There is no store:  *)
(* state stays empty.                                                      *)
(***************************************************************************)
\* names of 1, 20, 0 and 21 characters
CodecNames ==
    { "a", "b", "abcdefghijklmnopqrst", "", "abcdefghijklmnopqrstu" }

\* values at the ends of the ranges of one, two, three and four bytes
CodecValues ==
    { u32(0), u32(23), u32(24), u32(255), u32(256), u32(65535), u32(65536),
      u32(16777215), u32(16777216), MAX_VALUE }

\* the maps of at most MaxNames names
Maps ==
    UNION { [ names -> CodecValues ] :
              names \in { n \in SUBSET CodecNames : Cardinality(n) <= MaxNames } }

InitCodec ==
    /\ state = <<>>
    /\ \E map \in Maps : last = [ op |-> "new", map |-> map, ret |-> Ok(<<>>) ]

EncodeIntkey ==
    /\ last.op = "new"
    /\ last' = [ last EXCEPT !.op = "encode_intkey",
                             !.ret = encode_intkey(last.map) ]
    /\ UNCHANGED state

DecodeIntkey ==
    /\ last.op = "encode_intkey"
    /\ last.ret.tag = "Ok"
    /\ last' = [ op |-> "decode_intkey", map |-> last.map,
                 hex_string |-> last.ret.val,
                 ret |-> decode_intkey(last.ret.val) ]
    /\ UNCHANGED state

NextCodec ==
    \/ EncodeIntkey
    \/ DecodeIntkey

SpecCodec == InitCodec /\ [][NextCodec]_vars

(***************************************************************************)
(* Properties.                                                             *)
(***************************************************************************)
\* the entries of the bucket stored at the address of key (none if absent)
BucketOf(st, key) ==
    IF compute(key) \in DOMAIN st THEN st[compute(key)].bytes ELSE <<>>

\* key is set: its bucket holds a record with its normalized key
Present(st, key) ==
    \E i \in 1..Len(BucketOf(st, key)) :
        BucketOf(st, key)[i].normalized_key = normalize(key)

\* two natural keys that share an address but not a normalized key
Collide(k1, k2) ==
    /\ normalize(k1) # normalize(k2)
    /\ compute(k1) = compute(k2)

\* C1: round trip.  Whenever set_state_entry(k, v) has returned Ok, whatever
\* the store held before, get_state_entry(k) returns Some(v): the same names
\* with the same values.
C1_RoundTrip ==
    (last.op = "set_state_entry" /\ last.ret.tag = "Ok")
        => get_state_entry(state, last.keys[1])
               = Some(last.entries[last.keys[1]])

\* C1 witness: k has just been set while an older record of k with other
\* values is still in its bucket, and get_state_entry(k) returns the new ones
C1_Witness ==
    /\ last.op = "set_state_entry"
    /\ Len(BucketOf(state, last.keys[1])) = 2
    /\ BucketOf(state, last.keys[1])[1].normalized_key = normalize(last.keys[1])
    /\ entry_values(BucketOf(state, last.keys[1])[1])
           # last.entries[last.keys[1]]
    /\ get_state_entry(state, last.keys[1]) = Some(last.entries[last.keys[1]])

\* C2: collision coexistence.  When two keys with different normalized keys
\* and the same address are set one after the other (in either order), both
\* are retrievable with their own values; and when one of two such keys that
\* are both set is deleted, the delete returns its normalized key and
\* get_state_entry of the other returns what it returned before.
C2_CollisionCoexistence ==
    [][ /\ ( /\ last.op = "set_state_entry"
             /\ last'.op = "set_state_entry"
             /\ Collide(last.keys[1], last'.keys[1]) )
            => /\ get_state_entry(state', last.keys[1])
                      = Some(last.entries[last.keys[1]])
               /\ get_state_entry(state', last'.keys[1])
                      = Some(last'.entries[last'.keys[1]])
        /\ last'.op = "delete_state_entry"
            => \A other \in Keys :
                 ( /\ Collide(last'.keys[1], other)
                   /\ Present(state, last'.keys[1])
                   /\ Present(state, other) )
                 => /\ last'.ret = Ok(Some(normalize(last'.keys[1])))
                    /\ get_state_entry(state', other)
                           = get_state_entry(state, other)
                    /\ get_state_entry(state', other).some
      ]_vars

\* C2 witness: one of two colliding keys has been deleted and the other is
\* still there, alone in the bucket they shared
C2_Witness ==
    /\ last.op = "delete_state_entry"
    /\ last.ret = Ok(Some(normalize(last.keys[1])))
    /\ \E other \in Keys :
         /\ Collide(last.keys[1], other)
         /\ Present(state, other)
         /\ get_state_entry(state, last.keys[1]) = None

\* the keys of the list have pairwise different normalized keys
DistinctNormalized(keys) ==
    \A i, j \in 1..Len(keys) : i # j => normalize(keys[i]) # normalize(keys[j])

\* C3: batch equivalence.  After set_state_entries({k1: v1, k2: v2}) with
\* normalize(k1) # normalize(k2), also when k1 and k2 have the same address,
\* get_state_entries([k1, k2]) yields {normalize(k1): v1, normalize(k2): v2},
\* which is what setting and getting the two keys one by one yields.
C3_BatchEquivalence ==
    ( /\ last.op = "set_state_entries"
      /\ Len(last.keys) = 2
      /\ DistinctNormalized(last.keys) )
    => \A addresses_order \in AddressOrders(state, last.keys) :
         get_state_entries(state, last.keys, addresses_order)
             = [ nkey \in { normalize(last.keys[1]), normalize(last.keys[2]) } |->
                   IF nkey = normalize(last.keys[1])
                   THEN last.entries[last.keys[1]]
                   ELSE last.entries[last.keys[2]] ]

\* C4: after delete_state_entries(ks) has returned Ok(deleted), every key of
\* ks whose normalized key is in deleted is gone: get_state_entry of it
\* returns None and a repeated delete_state_entries(ks) returns an empty
\* list.  It is stated here for the batches whose keys have pairwise
\* different normalized keys, several of which may map to the same address.
C4_DeletedIsGone ==
    ( /\ last.op = "delete_state_entries"
      /\ DistinctNormalized(last.keys) )
    => /\ \A i \in 1..Len(last.keys) :
            normalize(last.keys[i]) \in Range(last.ret.val)
                => get_state_entry(state, last.keys[i]) = None
       /\ \A nkeys_order \in NKeyOrders(last.keys) :
            delete_state_entries(state, last.keys, nkeys_order).deleted_keys
                = <<>>

\* C5: bucket uniqueness.  In every reachable state of the raw store no
\* bucket contains two records with the same normalized key.
C5_BucketUniqueness ==
    \A a \in DOMAIN state :
      \A i, j \in 1..Len(state[a].bytes) :
        i # j => state[a].bytes[i].normalized_key
                     # state[a].bytes[j].normalized_key

\* C6: no empty bucket is ever stored.  After every call every address of
\* the raw store holds a bucket with at least one record; and when a delete
\* returns a normalized key whose bucket held records of that key only, the
\* address of the bucket is absent from the raw store afterwards.
C6_NoEmptyBucket ==
    [][ /\ \A a \in DOMAIN state' : state'[a].bytes # <<>>
        /\ last'.op \in {"delete_state_entry", "delete_state_entries"}
            => \A i \in 1..Len(last'.keys) :
                 LET nkey == normalize(last'.keys[i])
                     addr == key_map_of(last'.keys)[nkey]
                     returned ==
                         IF last'.op = "delete_state_entry"
                         THEN last'.ret = Ok(Some(nkey))
                         ELSE nkey \in Range(last'.ret.val)
                 IN  ( /\ returned
                       /\ \A j \in 1..Len(state[addr].bytes) :
                            state[addr].bytes[j].normalized_key = nkey )
                     => addr \notin DOMAIN state'
      ]_vars

\* C6 witness: a delete has removed the only record of a bucket and the
\* address is gone, while another bucket is still stored
C6_Witness ==
    /\ last.op = "delete_state_entry"
    /\ last.ret = Ok(Some(normalize(last.keys[1])))
    /\ compute(last.keys[1]) \notin DOMAIN state
    /\ DOMAIN state # {}

\* C7: delete_state_entry(k) returns Some(normalize(k)) exactly when the
\* bucket at compute(k) holds a record with normalize(k) before the call;
\* it returns None when the address is absent or the bucket holds no such
\* record.
C7_DeleteResult ==
    [][ last'.op = "delete_state_entry"
            => LET key == last'.keys[1]
               IN  /\ Present(state, key)
                        => last'.ret = Ok(Some(normalize(key)))
                   /\ ~ Present(state, key) => last'.ret = Ok(None)
      ]_vars

\* C7 witness: delete_state_entry(k) has returned None although the address
\* of k exists, because the bucket holds records of another key only
C7_Witness ==
    /\ last.op = "delete_state_entry"
    /\ last.ret = Ok(None)
    /\ compute(last.keys[1]) \in DOMAIN state
    /\ ~ Present(state, last.keys[1])

\* C8: idempotent delete.  After delete_state_entry(k) has removed k (set
\* once or several times), get_state_entry(k) returns None and a second
\* delete_state_entry(k) returns None.
C8_IdempotentDelete ==
    (last.op = "delete_state_entry" /\ last.ret.val.some)
        => /\ get_state_entry(state, last.keys[1]) = None
           /\ delete_state_entry(state, last.keys[1]).deleted = None

\* C8 witness: k has been deleted from a bucket that is still stored, and
\* deleting it again returns None and changes nothing
C8_Witness ==
    /\ last.op = "delete_state_entry"
    /\ last.ret = Ok(Some(normalize(last.keys[1])))
    /\ compute(last.keys[1]) \in DOMAIN state
    /\ delete_state_entry(state, last.keys[1])
           = [state |-> state, deleted |-> None]

\* the values stored for key: those of the record of its bucket that was
\* written last with its normalized key
StoredValues(st, key) ==
    LET bucket == BucketOf(st, key)
        newest == CHOOSE i \in 1..Len(bucket) :
                      /\ bucket[i].normalized_key = normalize(key)
                      /\ \A j \in 1..Len(bucket) :
                           bucket[j].normalized_key = normalize(key) => j <= i
    IN  entry_values(bucket[newest])

\* C9: delete_state_entries(ks) returns Ok with exactly the normalized keys
\* of the keys of ks that were set before the call: no key that was absent
\* is listed and no key that was present is missing.
C9_DeleteBatchResult ==
    [][ last'.op = "delete_state_entries"
            => /\ last'.ret.tag = "Ok"
               /\ Range(last'.ret.val)
                      = { normalize(last'.keys[i]) :
                            i \in { j \in 1..Len(last'.keys) :
                                      Present(state, last'.keys[j]) } }
      ]_vars

\* C10: get_state_entries(keys) returns a map whose keys are exactly the
\* normalized keys of the keys of the call that are set, each with the
\* values stored for that key; and get_state_entry(k) returns None when the
\* address of k is absent or its bucket holds records of other keys only.
C10_GetResult ==
    /\ last.op = "get_state_entries"
        => /\ DOMAIN last.ret.val
                  = { normalize(last.keys[i]) :
                        i \in { j \in 1..Len(last.keys) :
                                  Present(state, last.keys[j]) } }
           /\ \A i \in 1..Len(last.keys) :
                Present(state, last.keys[i])
                    => last.ret.val[normalize(last.keys[i])]
                           = StoredValues(state, last.keys[i])
    /\ last.op = "get_state_entry"
        => (~ Present(state, last.keys[1]) => last.ret = Ok(None))
(***************************************************************************)
(* Properties of the runs (SpecRun).                                       *)
(***************************************************************************)
BatchOps == { "set_state_entries", "get_state_entries", "delete_state_entries" }

\* the raw calls of one kind among calls
CallsOf(calls, kind) == SelectSeq(calls, LAMBDA c : c.call = kind)

\* the addresses a raw call writes or deletes, in order
Targets(c) ==
    IF c.call = "set_state_entries"
    THEN [ j \in 1..Len(c.entries) |-> c.entries[j][1] ]
    ELSE IF c.call = "delete_state_entries" THEN c.addresses
    ELSE <<>>

\* the positions (call, index) at which calls write or delete an address
Writes(calls) ==
    UNION { { <<i, j>> : j \in 1..Len(Targets(calls[i])) } : i \in 1..Len(calls) }

\* the normalized keys of the records of a payload
NKeysIn(payload) ==
    { payload.bytes[i].normalized_key : i \in 1..Len(payload.bytes) }

\* C11: a batch call that succeeds groups its keys by address: it makes one
\* raw read, no address is written or deleted at two positions of its raw
\* set and raw delete calls, every payload set_state_entries writes at an
\* address holds the records of all keys of the batch that map to the
\* address, and no payload delete_state_entries writes at an address holds
\* a record of a key of the batch that maps to the address.
C11_GroupedByAddress ==
    (last.op \in BatchOps /\ last.ret.tag = "Ok") =>
        /\ Len(CallsOf(last.calls, "get_state_entries")) = 1
        /\ \A p, q \in Writes(last.calls) :
               p # q => Targets(last.calls[p[1]])[p[2]]
                            # Targets(last.calls[q[1]])[q[2]]
        /\ \A c \in Range(CallsOf(last.calls, "set_state_entries")) :
             \A e \in Range(c.entries), key \in Range(last.keys) :
               compute(key) = e[1] =>
                   IF last.op = "set_state_entries"
                   THEN normalize(key) \in NKeysIn(e[2])
                   ELSE normalize(key) \notin NKeysIn(e[2])

\* the addresses the raw get calls among calls ask for
Fetched(calls) ==
    UNION { Range(c.addresses) : c \in Range(CallsOf(calls, "get_state_entries")) }

\* C12: when the address of a key of a batch handed to set_state_entries or
\* delete_state_entries cannot be computed, the call returns the
\* AddresserError; when the payload fetched at an address of the batch does
\* not parse, the call returns the ProtoConversionError; and a call that
\* returns either error has issued no raw set and no raw delete and leaves
\* the raw store as it was.
C12_FailedBatchLeavesStore ==
    [][ last'.op \in { "set_state_entries", "delete_state_entries" } =>
          LET rejected == \E key \in Range(last'.keys) : key \in RejectedKeys
              unparsable == Fetched(last'.calls) \cap Foreign(state) # {}
          IN  /\ rejected => last'.ret = Err("AddresserError")
              /\ (last'.fault # "get_state_entries" /\ unparsable)
                     => last'.ret = Err("ProtoConversionError")
              /\ last'.ret \in { Err("AddresserError"), Err("ProtoConversionError") }
                     => /\ state' = state
                        /\ CallsOf(last'.calls, "set_state_entries") = <<>>
                        /\ CallsOf(last'.calls, "delete_state_entries") = <<>>
      ]_vars

\* a batch delete of two keys has failed on a payload that does not parse
\* while another address of the batch holds a bucket
C12_Witness ==
    /\ last.op = "delete_state_entries"
    /\ last.ret = Err("ProtoConversionError")
    /\ Len(last.keys) = 2
    /\ \E key \in Range(last.keys) :
           compute(key) \in DOMAIN state \ Foreign(state)

C14_RawErrorsPropagate ==
    last # Idle =>
        /\ \A kind \in { "get_state_entries", "set_state_entries",
                         "delete_state_entries" } :
               Len(CallsOf(last.calls, kind)) <= 1
        /\ \A i \in 1..Len(last.calls) :
               last.calls[i].call = last.fault
                   => /\ i = Len(last.calls)
                      /\ last.ret = Err("SdkError")

\* a batch delete of two keys whose raw delete of an address was refused,
\* after the raw get, has returned the SdkError
C14_Witness ==
    /\ last.op = "delete_state_entries"
    /\ Len(last.keys) = 2
    /\ last.fault = "delete_state_entries"
    /\ Len(last.calls) = 2
    /\ last.calls[2].call = "delete_state_entries"
    /\ last.calls[2].addresses # <<>>
    /\ last.ret = Err("SdkError")

(***************************************************************************)
(* Properties of the addressers (SpecAddresser).                           *)
(***************************************************************************)
\* C15: whenever compute returns Ok, whatever the kind of the addresser, the
\* prefix, the overrides and the build, the address has exactly 70
\* characters and starts with the prefix.
C15_AddressLength ==
    (last.op = "compute" /\ last.ret.tag = "Ok") =>
        /\ Len(last.ret.val) = 70
        /\ SubSeq(last.ret.val, 1, Len(last.prefix)) = last.prefix

\* compute of a triple-key addresser with an odd split and a prefix of the
\* tests has returned an address
C15_Witness ==
    /\ last.op = "compute"
    /\ last.kind = "TripleKeyHashAddresser"
    /\ last.prefix = "prefix"
    /\ last.first = Some(usize(1))
    /\ last.second = None
    /\ last.ret.tag = "Ok"

\* a usize is larger than the number n
Exceeds(x, n) == usize_lt(usize(n), x)

\* the prefix and the lengths handed to the constructor cannot be part of
\* an address of 70 characters: the prefix alone is longer, or the first
\* length, or the first and second length together, are larger than what
\* the prefix leaves
Misconfigured ==
    LET left == ADDRESS_LENGTH - Len(last.prefix)
    IN  \/ left < 0
        \/ last.first.some /\ Exceeds(last.first.val, left)
        \/ last.second.some /\ Exceeds(last.second.val, left)
        \/ /\ last.first.some /\ last.second.some
           /\ last.first.val.hi = 0 /\ last.second.val.hi = 0
           /\ last.first.val.lo + last.second.val.lo > left

\* C16: every call of compute on a double-key or triple-key addresser whose
\* prefix and configured lengths cannot sum to 70 returns the
\* AddresserError: it returns no address and it does not crash.
C16_MisconfigurationIsAnError ==
    ( /\ last.kind \in { "DoubleKeyHashAddresser", "TripleKeyHashAddresser" }
      /\ last.op = "compute"
      /\ Misconfigured )
    => last.ret = Err("AddresserError")

HexDigits ==
    { "0", "1", "2", "3", "4", "5", "6", "7", "8", "9",
      "a", "b", "c", "d", "e", "f" }

\* s is composed only of hexadecimal characters
IsHex(s) == \A i \in 1..Len(s) : SubSeq(s, i, i) \in HexDigits

\* C17 as claimed: every address compute returns is composed only of
\* hexadecimal characters, whatever string the prefix is.
C17_HexAddress ==
    (last.op = "compute" /\ last.ret.tag = "Ok") => IsHex(last.ret.val)

\* C17, amended: every address compute returns on an addresser whose prefix
\* is composed only of hexadecimal characters is composed only of
\* hexadecimal characters.
C17_HexAddressOfHexPrefix ==
    (last.op = "compute" /\ last.ret.tag = "Ok" /\ IsHex(last.prefix))
        => IsHex(last.ret.val)

\* compute of a single-key addresser with a hexadecimal prefix of six
\* characters has returned an address
C17_Witness ==
    /\ last.op = "compute"
    /\ last.kind = "KeyHashAddresser"
    /\ Len(last.prefix) = 6
    /\ IsHex(last.prefix)
    /\ last.ret.tag = "Ok"

C20_DoubleKeySplit ==
    (last.kind = "DoubleKeyHashAddresser" /\ last.op = "compute") =>
        LET p == Len(last.prefix)
            first_length == IF last.first.some THEN last.first.val.lo
                            ELSE (ADDRESS_LENGTH - p) \div 2
            second_length == ADDRESS_LENGTH - p - first_length
        IN  /\ (~last.first.some /\ p <= ADDRESS_LENGTH) => last.ret.tag = "Ok"
            /\ last.ret.tag = "Ok" =>
                 /\ second_length >= 0
                 /\ SubSeq(last.ret.val, p + 1, p + first_length)
                        = SubSeq(Sha512Hex(last.keys[1]), 1, first_length)
                 /\ SubSeq(last.ret.val, p + first_length + 1, Len(last.ret.val))
                        = SubSeq(Sha512Hex(last.keys[2]), 1, second_length)

\* compute of a double-key addresser with a prefix of seven characters,
\* which leaves an odd number, and no first_hash_length has returned an
\* address
C20_Witness ==
    /\ last.kind = "DoubleKeyHashAddresser"
    /\ last.op = "compute"
    /\ Len(last.prefix) = 7
    /\ ~last.first.some
    /\ last.ret.tag = "Ok"

\* the address is the prefix followed by the first f characters of the
\* digest of the first component, the first s of the second and the first
\* t of the third
SplitAs(address, prefix, keys, f, s, t) ==
    address = prefix \o SubSeq(Sha512Hex(keys[1]), 1, f)
                     \o SubSeq(Sha512Hex(keys[2]), 1, s)
                     \o SubSeq(Sha512Hex(keys[3]), 1, t)

\* C21: a triple-key addresser constructed with both overrides unset from a
\* prefix of p <= 70 characters has first and second segment lengths of
\* (70 - p) / 3 each, and its compute returns Ok with an address made of the
\* prefix, (70 - p) / 3 characters of the digest of each of the first two
\* components and (70 - p) - 2 * ((70 - p) / 3) characters of the digest of
\* the third; the third segment is 0, 1 or 2 characters longer than the
\* others and the four lengths sum to 70.
C21_TripleKeyDefaultSplit ==
    ( /\ last.kind = "TripleKeyHashAddresser"
      /\ ~last.first.some /\ ~last.second.some
      /\ Len(last.prefix) <= ADDRESS_LENGTH ) =>
        LET p == Len(last.prefix)
            third == (ADDRESS_LENGTH - p) \div 3
            rest == (ADDRESS_LENGTH - p) - 2 * third
        IN  /\ last.addresser # Panic
            /\ last.addresser.first_hash_length = usize(third)
            /\ last.addresser.second_hash_length = usize(third)
            /\ rest - third \in 0..2
            /\ p + third + third + rest = ADDRESS_LENGTH
            /\ last.op = "compute" =>
                 /\ last.ret.tag = "Ok"
                 /\ SplitAs(last.ret.val, last.prefix, last.keys,
                            third, third, rest)

\* compute of the triple-key addresser of the tests, with the prefix of six
\* characters and no override, has returned an address, of segments 21, 21
\* and 22
C21_Witness ==
    /\ last.kind = "TripleKeyHashAddresser"
    /\ last.op = "compute"
    /\ last.prefix = "prefix"
    /\ ~last.first.some /\ ~last.second.some
    /\ last.ret.tag = "Ok"
    /\ last.addresser.first_hash_length = usize(21)
    /\ Len(last.ret.val) = 6 + 21 + 21 + 22

\* C22: for a triple-key addresser constructed with exactly one override,
\* a length g, from a prefix of p characters: the addresser keeps g
\* unchanged as the length it was given for; when g <= 70 - p the other of
\* the first two lengths is (70 - p - g) / 2 and compute returns Ok with an
\* address made of the prefix and segments of these two lengths, in their
\* places, and a third segment of what is left of 70; and compute returns no
\* address when g > 70 - p.
C22_TripleKeyOneOverride ==
    ( /\ last.kind = "TripleKeyHashAddresser"
      /\ last.first.some # last.second.some ) =>
        LET p == Len(last.prefix)
            given == IF last.first.some THEN last.first.val
                     ELSE last.second.val
            fits == given.hi = 0 /\ p + given.lo <= ADDRESS_LENGTH
            other == (ADDRESS_LENGTH - p - given.lo) \div 2
            first == IF last.first.some THEN given.lo ELSE other
            second == IF last.second.some THEN given.lo ELSE other
        IN  /\ (last.addresser # Panic /\ last.first.some) =>
                 last.addresser.first_hash_length = given
            /\ (last.addresser # Panic /\ last.second.some) =>
                 last.addresser.second_hash_length = given
            /\ fits =>
                 /\ last.addresser # Panic
                 /\ last.addresser.first_hash_length = usize(first)
                 /\ last.addresser.second_hash_length = usize(second)
                 /\ last.op = "compute" =>
                      /\ last.ret.tag = "Ok"
                      /\ SplitAs(last.ret.val, last.prefix, last.keys,
                                 first, second,
                                 ADDRESS_LENGTH - p - first - second)
            /\ (last.op = "compute" /\ last.ret.tag = "Ok") => fits

\* compute of a triple-key addresser with the prefix of the tests and only
\* the second length set, to 10, has returned an address, of segments 27, 10
\* and 27
C22_Witness ==
    /\ last.kind = "TripleKeyHashAddresser"
    /\ last.op = "compute"
    /\ last.prefix = "prefix"
    /\ last.first = None
    /\ last.second = Some(usize(10))
    /\ last.ret.tag = "Ok"
    /\ last.addresser.first_hash_length = usize(27)

\* C23: for a triple-key addresser constructed with both overrides set, to f
\* and s, from a prefix of p characters: the addresser keeps f and s
\* unchanged; whenever compute returns an address it is made of the prefix
\* and segments of f, s and 70 - p - f - s characters; and compute checks
\* that remainder: when f + s > 70 - p it returns the AddresserError.
C23_TripleKeyBothOverrides ==
    ( /\ last.kind = "TripleKeyHashAddresser"
      /\ last.first.some /\ last.second.some
      /\ last.addresser # Panic ) =>
        LET p == Len(last.prefix)
            f == last.first.val
            s == last.second.val
            fits == /\ f.hi = 0 /\ s.hi = 0
                    /\ p + f.lo + s.lo <= ADDRESS_LENGTH
        IN  /\ last.addresser.first_hash_length = f
            /\ last.addresser.second_hash_length = s
            /\ last.op = "compute" =>
                 IF fits
                 THEN /\ last.ret.tag = "Ok"
                      /\ SplitAs(last.ret.val, last.prefix, last.keys,
                                 f.lo, s.lo, ADDRESS_LENGTH - p - f.lo - s.lo)
                 ELSE last.ret = Err("AddresserError")

\* C24: every call of normalize returns a string, whatever the prefix and
\* the lengths the addresser was constructed with: the key itself for a
\* single-key addresser, the two components joined by one "_" for a
\* double-key addresser, and the three components joined by "_", in their
\* order, for a triple-key addresser.
C24_Normalize ==
    last.op = "normalize" =>
        CASE last.kind = "KeyHashAddresser" -> last.ret = last.keys
          [] last.kind = "DoubleKeyHashAddresser" ->
                 last.ret = last.keys[1] \o "_" \o last.keys[2]
          [] last.kind = "TripleKeyHashAddresser" ->
                 last.ret = last.keys[1] \o "_" \o last.keys[2]
                                         \o "_" \o last.keys[3]

\* normalize of a triple-key addresser whose lengths cannot be part of an
\* address (compute fails on it) has returned "a_b_c"
C24_Witness ==
    /\ last.op = "normalize"
    /\ last.kind = "TripleKeyHashAddresser"
    /\ Misconfigured
    /\ last.keys = <<"a", "b", "c">>
    /\ last.ret = "a_b_c"

(***************************************************************************)
(* Properties of the command line client (SpecCli).                        *)
(***************************************************************************)
\* the URL starts with the scheme http, in whatever case
IsHttp(url) == Len(url) >= 5 /\ to_lowercase(SubSeq(url, 1, 5)) = "http:"

\* C25: whenever submit_batches or get_state_with_prefix is called with a
\* URL whose scheme is not http (another scheme, or none), it returns the
\* CliError User and has sent no request.
C25_SchemeChecked ==
    ( /\ last.op \in { "submit_batches", "get_state_with_prefix" }
      /\ ~IsHttp(last.url) )
    => /\ last.ret = Err("User")
       /\ last.sent = <<>>

\* after a request that went out, get_state_with_prefix was called with a
\* file URL of the tests and returned the error
C25_Witness ==
    /\ last.op = "get_state_with_prefix"
    /\ last.url = "file://test"
    /\ last.ret = Err("User")
    /\ state # <<>>

(***************************************************************************)
(* Properties of the context over two calls and of what a call leaves      *)
(* alone (Spec, SpecRun).                                                  *)
(***************************************************************************)
\* C26: last write wins.  Whenever set_state_entry(k, v1) is followed by
\* set_state_entry(k, v2) with v2 # v1, whatever the store held before,
\* get_state_entry(k) then returns Some(v2): the names of v2 with the values
\* of v2, and no name that only v1 has.
C26_LastWriteWins ==
    [][ ( /\ last.op = "set_state_entry"
          /\ last'.op = "set_state_entry"
          /\ last'.keys = last.keys
          /\ last'.entries # last.entries )
        => LET k == last.keys[1]
               v1 == last.entries[k]
               v2 == last'.entries[k]
               got == get_state_entry(state', k)
           IN  /\ got = Some(v2)
               /\ \A name \in DOMAIN v1 \ DOMAIN v2 : name \notin DOMAIN got.val
      ]_vars

\* k was set to values with the name key2 and has just been set again to
\* values without it: both records are in the bucket of k, and
\* get_state_entry(k) returns the values without key2
C26_Witness ==
    /\ last.op = "set_state_entry"
    /\ LET k == last.keys[1]
           bucket == BucketOf(state, k)
       IN  /\ "key2" \notin DOMAIN last.entries[k]
           /\ \E i, j \in 1..Len(bucket) :
                /\ i < j
                /\ bucket[i].normalized_key = normalize(k)
                /\ bucket[j].normalized_key = normalize(k)
                /\ "key2" \in DOMAIN entry_values(bucket[i])
                /\ entry_values(bucket[j]) = last.entries[k]
           /\ get_state_entry(state, k).some
           /\ "key2" \notin DOMAIN get_state_entry(state, k).val

\* C27: whenever delete_state_entry(k) returns Some, the records of the
\* bucket of k that have another normalized key are what the address of k
\* holds afterwards, unchanged and in their order, if there are any; if
\* there are none, a raw delete of the address was issued and the address
\* is absent from the raw store afterwards.
C27_DeleteLifecycle ==
    [][ ( /\ last'.op = "delete_state_entry"
          /\ last'.ret.tag = "Ok"
          /\ last'.ret.val.some )
        => LET k == last'.keys[1]
               others == SelectSeq(state[compute(k)].bytes,
                             LAMBDA e : e.normalized_key # normalize(k))
           IN  IF others # <<>>
               THEN /\ compute(k) \in DOMAIN state'
                    /\ state'[compute(k)].bytes = others
               ELSE /\ compute(k) \notin DOMAIN state'
                    /\ \E i \in 1..Len(last'.calls) :
                         last'.calls[i] = RawDelete(<<compute(k)>>)
      ]_vars

\* delete_state_entry of a key has returned Some and no raw delete was
\* asked for: the address of the key still holds the record of the key it
\* shares the address with
C27_Witness ==
    /\ last.op = "delete_state_entry"
    /\ last.keys[1] \in Keys
    /\ last.ret = Ok(Some(normalize(last.keys[1])))
    /\ compute(last.keys[1]) \in DOMAIN state
    /\ \E other \in Keys :
         /\ Collide(other, last.keys[1])
         /\ Present(state, other)
    /\ \E i \in 1..Len(last.calls) : last.calls[i] = RawDelete(<<>>)

\* the addresses and the normalized keys of the keys of a call that have
\* them
AddressesOf(keys) ==
    { compute(keys[i]) : i \in { j \in 1..Len(keys) : keys[j] \in Keys } }

NormalizedKeysOf(keys) ==
    { normalize(keys[i]) : i \in { j \in 1..Len(keys) : keys[j] \in Keys } }

\* the records at address a whose normalized key is not in nkeys
OtherRecords(st, a, nkeys) ==
    IF a \in DOMAIN st /\ "bytes" \in DOMAIN st[a]
    THEN SelectSeq(st[a].bytes, LAMBDA e : e.normalized_key \notin nkeys)
    ELSE <<>>

\* C28: every call of set_state_entries or delete_state_entries, whatever
\* it returns, leaves every address that is not the address of a key of the
\* call as it was, present or absent, with its payload; and at the
\* addresses of the keys of the call, the records whose normalized key is
\* not a normalized key of the call are afterwards what they were before,
\* with their values.
C28_FrameOfWrites ==
    [][ last'.op \in { "set_state_entries", "delete_state_entries" }
        => LET touched == AddressesOf(last'.keys)
               nkeys == NormalizedKeysOf(last'.keys)
           IN  /\ \A a \in (DOMAIN state \cup DOMAIN state') \ touched :
                    /\ a \in DOMAIN state
                    /\ a \in DOMAIN state'
                    /\ state'[a] = state[a]
               /\ \A a \in touched :
                    OtherRecords(state', a, nkeys) = OtherRecords(state, a, nkeys)
      ]_vars

\* delete_state_entries of two keys of different addresses has removed a
\* record; the record of a third key, which shares its address with one of
\* them, is still there
C28_Witness ==
    /\ last.op = "delete_state_entries"
    /\ last.ret.tag = "Ok"
    /\ last.ret.val # <<>>
    /\ Cardinality(AddressesOf(last.keys)) = 2
    /\ \E a \in AddressesOf(last.keys) :
         OtherRecords(state, a, NormalizedKeysOf(last.keys)) # <<>>

\* C29: a call of get_state_entry or get_state_entries, whatever it
\* returns, leaves the raw store as it was; and so does a call of
\* delete_state_entry that returns None and a call of delete_state_entries
\* that returns an empty list.
C29_NothingToChange ==
    [][ ( \/ last'.op \in { "get_state_entry", "get_state_entries" }
          \/ /\ last'.op = "delete_state_entry"
             /\ last'.ret = Ok(None)
          \/ /\ last'.op = "delete_state_entries"
             /\ last'.ret = Ok(<<>>) )
        => state' = state
      ]_vars

\* delete_state_entry of a key that is not set has returned None although
\* the address of the key holds the record of another key
C29_Witness ==
    /\ last.op = "delete_state_entry"
    /\ last.ret = Ok(None)
    /\ last.keys[1] \in Keys
    /\ compute(last.keys[1]) \in DOMAIN state
    /\ OtherRecords(state, compute(last.keys[1]), { normalize(last.keys[1]) })
           # <<>>

\* the addresses of the raw deletes among the raw calls
RawDeleted(calls) ==
    UNION { Range(calls[i].addresses) :
              i \in { j \in 1..Len(calls) :
                        calls[j].call = "delete_state_entries" } }

\* C30: a call of delete_state_entries issues its raw delete before its raw
\* set; and when the raw delete was done and the call then fails, in the
\* raw set or in building its payload, it returns the error, the addresses
\* of the raw delete are absent from the raw store, and every other address
\* is as it was before the call: the buckets that were to be written back
\* still hold the records that were to be removed.
C30_DeleteNotAtomic ==
    [][ last'.op \in { "delete_state_entry", "delete_state_entries" }
        => /\ \A i, j \in 1..Len(last'.calls) :
                ( /\ last'.calls[i].call = "delete_state_entries"
                  /\ last'.calls[j].call = "set_state_entries" ) => i < j
           /\ ( /\ last'.ret.tag = "Err"
                /\ last'.fault # "delete_state_entries"
                /\ \E i \in 1..Len(last'.calls) :
                     last'.calls[i].call = "delete_state_entries" )
              => /\ last'.ret \in { Err("SdkError"), Err("ProtocolBuildError") }
                 /\ DOMAIN state' = DOMAIN state \ RawDeleted(last'.calls)
                 /\ \A a \in DOMAIN state' : state'[a] = state[a]
      ]_vars

\* delete_state_entries of two keys has failed in its raw set, which was of
\* a bucket that keeps a record: the address of one key is gone, and the
\* other key is still set
C30_Witness ==
    /\ last.op = "delete_state_entries"
    /\ last.ret = Err("SdkError")
    /\ last.fault = "set_state_entries"
    /\ RawDeleted(last.calls) # {}
    /\ RawDeleted(last.calls) \cap DOMAIN state = {}
    /\ \E i \in 1..Len(last.calls) :
         /\ last.calls[i].call = "set_state_entries"
         /\ last.calls[i].entries # <<>>
    /\ \E i \in 1..Len(last.keys) :
         last.keys[i] \in Keys /\ Present(state, last.keys[i])

(***************************************************************************)
(* Properties of normalize and of the segment arithmetic (SpecAddresser).  *)
(***************************************************************************)
\* C31: whenever normalize of a double-key or triple-key addresser returns
\* a normalized key, no other natural key of the same arity has that
\* normalized key.
C31_NormalizedKeysIdentify ==
    last.op = "normalize" =>
        /\ last.kind = "DoubleKeyHashAddresser" =>
             \A other \in DoubleKeys \ { last.keys } :
                 DoubleKey_normalize(last.addresser, other) # last.ret
        /\ last.kind = "TripleKeyHashAddresser" =>
             \A other \in TripleKeys \ { last.keys } :
                 TripleKey_normalize(last.addresser, other) # last.ret


\* C32: no addresser that a constructor returns is misconfigured, so that no
\* subtraction of the segment arithmetic goes below zero and no segment is
\* longer than the digest: the constructor and compute never panic.
C32_SegmentArithmetic ==
    /\ ~Misconfigured
    /\ last.op \in { "new", "compute" } => last.ret # Panic


(***************************************************************************)
(* Properties of the status of a batch list (SpecCli).                     *)
(***************************************************************************)
\* the statuses of the batches of a StatusResponse
StatusesOf(self) == { self.data[i].status : i \in 1..Len(self.data) }

\* C37: is_finished returns true exactly when every batch status of data is
\* COMMITTED or at least one is INVALID: true for an empty data list, false
\* when some batch is neither COMMITTED nor INVALID and none is INVALID.
C37_IsFinished ==
    last.op = "is_finished" =>
        /\ last.ret <=> \/ StatusesOf(last.self) \subseteq { "COMMITTED" }
                        \/ "INVALID" \in StatusesOf(last.self)
        /\ last.self.data = <<>> => last.ret
        /\ ( /\ StatusesOf(last.self) \ { "COMMITTED", "INVALID" } # {}
             /\ "INVALID" \notin StatusesOf(last.self) ) => ~last.ret

\* is_finished returned true for a list with an INVALID batch and a batch
\* that is still pending
C37_Witness ==
    /\ last.op = "is_finished"
    /\ last.ret
    /\ StatusesOf(last.self) = { "INVALID", "PENDING" }


(***************************************************************************)
(* Properties of the intkey_multiply handler (SpecCodec, SpecIntkey).      *)
(***************************************************************************)
\* a map of at most 15 names of 1 to 20 characters each
Encodable(map) ==
    /\ Cardinality(DOMAIN map) <= 15
    /\ \A name \in DOMAIN map : Len(name) \in 1..20

\* the number of bytes after the marker that a value takes: none up to 23,
\* then 1, 2 or 4
BytesOf(value) ==
    IF small(value) <= 23 THEN 0
    ELSE IF small(value) < 256 THEN 1
    ELSE IF \A i \in 1..4 : value[i] = 0 THEN 2
    ELSE 4

\* the marker of a number of bytes
MarkerOf(bytes) == CASE bytes = 1 -> "18" [] bytes = 2 -> "19" [] bytes = 4 -> "1A"

\* C36: for every map of at most 15 names of 1 to 20 characters to values of
\* 32 bits, encode_intkey returns Ok and decode_intkey returns the map from
\* what encode_intkey returned; the value of a map of one name takes one byte
\* up to 23, and otherwise the marker 18, 19 or 1A and 1, 2 or 4 bytes.
C36_CodecRoundTrip ==
    ( last.op \in { "encode_intkey", "decode_intkey" } /\ Encodable(last.map) )
    => /\ last.op = "encode_intkey" =>
            /\ last.ret.tag = "Ok"
            /\ \A name \in DOMAIN last.map :
                 DOMAIN last.map = { name } =>
                   LET bytes == BytesOf(last.map[name])
                       at == 4 + 2 * Len(name)
                   IN  /\ Len(last.ret.val) = at + 2 + 2 * bytes
                       /\ bytes > 0 =>
                            SubSeq(last.ret.val, at + 1, at + 2) = MarkerOf(bytes)
       /\ last.op = "decode_intkey" => last.ret = Ok(last.map)


\* what a new IntkeyState reads for a name from a store
ValueOf(st, name) == IntkeyState_get(IntkeyState_new, st, name).ret

\* the payload names three names of the model
ThreeNames(payload) ==
    /\ Len(split(payload)) >= 3
    /\ \A i \in 1..3 : split(payload)[i] \in IntkeyNames

\* the product, in 64 bits, of the values two names have in a store
ProductOf(st, name_b, name_c) ==
    u64_mul(u64_from(ValueOf(st, name_b).val.val),
            u64_from(ValueOf(st, name_c).val.val))

\* the call returned InvalidTransaction, with this message if one is given
Rejected(call, msgs) ==
    /\ call.ret.tag = "Err"
    /\ call.ret.err.kind = "InvalidTransaction"
    /\ msgs # {} => call.ret.err.msg \in msgs

\* the outcome of apply on names whose entries decode, check by check
CheckedInOrder(st, call, a, b, c) ==
    IF ValueOf(st, a).val.some THEN Rejected(call, { a \o " is already set" })
    ELSE IF ~ValueOf(st, b).val.some
    THEN Rejected(call, { "Multiply requires a set value for name_b" })
    ELSE IF ~ValueOf(st, c).val.some
    THEN Rejected(call, { "Multiply requires a set value for name_c" })
    ELSE gt(ProductOf(st, b, c), u64_from(MAX_VALUE))
           => Rejected(call, { "Multiplied value is larger then max allowed" })

\* C33: whenever apply is called and name_a has a value, or name_b has none,
\* or name_c has none, or the product of the values of name_b and name_c is
\* above 4294967295, it returns InvalidTransaction, has issued no write and
\* no event and leaves the store as it was; the check that fails first, in
\* this order, is the one reported.
C33_PreconditionsChecked ==
    [][ ( last'.op = "apply" /\ ThreeNames(last'.arg) ) =>
          LET names == split(last'.arg)
              readable ==
                  \A i \in 1..3 : ValueOf(state, names[i]).tag = "Ok"
              unmet ==
                  \/ /\ ValueOf(state, names[1]).tag = "Ok"
                     /\ ValueOf(state, names[1]).val.some
                  \/ ValueOf(state, names[2]) = Ok(None)
                  \/ ValueOf(state, names[3]) = Ok(None)
                  \/ /\ readable
                     /\ ValueOf(state, names[2]).val.some
                     /\ ValueOf(state, names[3]).val.some
                     /\ gt(ProductOf(state, names[2], names[3]),
                           u64_from(MAX_VALUE))
          IN  /\ unmet => /\ Rejected(last', {})
                          /\ last'.writes = <<>>
                          /\ last'.events = <<>>
                          /\ state' = state
              /\ readable =>
                   CheckedInOrder(state, last', names[1], names[2], names[3])
      ]_vars

\* apply was called for a name_a that has a value while name_b has none, and
\* reported name_a
C33_Witness ==
    /\ last.op = "apply"
    /\ last.arg = "b,a,c"
    /\ last.ret = InvalidTransaction("b is already set")
    /\ ValueOf(state, "a") = Ok(None)
    /\ state[calculate_address("c")] # None
    /\ last.writes = <<>>


\* C34: whenever apply returns Ok, the value the store then holds for name_a
\* is the product, formed in 64 bits, of the values the store held for
\* name_b and name_c, and this product is at most 4294967295.
C34_ProductStored ==
    [][ ( last'.op = "apply" /\ last'.ret.tag = "Ok" ) =>
          LET names == split(last'.arg)
              product == ProductOf(state, names[2], names[3])
          IN  /\ ValueOf(state', names[1]).tag = "Ok"
              /\ ValueOf(state', names[1]).val.some
              /\ u64_from(ValueOf(state', names[1]).val.val) = product
              /\ ~gt(product, u64_from(MAX_VALUE))
              /\ \A i \in 1..Len(last'.writes) :
                   state'[last'.writes[i].address]
                       = Some(last'.writes[i].data)
      ]_vars

\* apply multiplied 65535 by 65537 and stored 4294967295, the largest value
C34_Witness ==
    /\ last.op = "apply"
    /\ last.arg = "a,b,c"
    /\ last.ret.tag = "Ok"
    /\ ValueOf(state, "b") = Ok(Some(u32(65535)))
    /\ ValueOf(state, "c") = Ok(Some([ i \in 1..8 |-> IF i \in { 4, 8 } THEN 1 ELSE 0 ]))
    /\ ValueOf(state, "a") = Ok(Some(MAX_VALUE))
    /\ Len(last.events) = 1


\* the names an address holds in a store with the values they have: the map
\* of the bytes stored there, none if nothing that decodes is stored
StoredAt(st, address) ==
    IF ~st[address].some THEN << >>
    ELSE IF decode_intkey(hex_join(st[address].val)).tag = "Err" THEN << >>
    ELSE decode_intkey(hex_join(st[address].val)).val

\* C35: whenever IntkeyState::set(name, value) returns Ok, every other name
\* that the store held at the address of name before the call is still held
\* there with the value it had, whether or not get was called before.
C35_SetKeepsOtherNames ==
    [][ ( last'.op = "set" /\ last'.ret.tag = "Ok" ) =>
          LET address == calculate_address(last'.arg[1])
              before == StoredAt(state, address)
              after == StoredAt(state', address)
          IN  \A other \in DOMAIN before \ { last'.arg[1] } :
                  /\ other \in DOMAIN after
                  /\ after[other] = before[other]
      ]_vars

=============================================================================
